---- MODULE Spec2Model ----
(***************************************************************************)
(* Workforce orchestration engine (src/src/workforce/service.ts and its    *)
(* store, roster and report-preset modules) as a state machine.            *)
(*                                                                         *)
(* Representation choices:                                                 *)
(*  - Strings that the code inspects with startsWith / includes / trim /   *)
(*    toLowerCase (action names) are sequences of tokens, e.g.             *)
(*    "appfolio.comms.broadcast" is <<"appfolio",".","comms",".",          *)
(*    "broadcast">>; " " is a whitespace token.  StartsWith and Includes   *)
(*    are computed on the token sequence.                                  *)
(*  - randomUUID() is a fresh natural number taken from nextId; 0 (NoId)   *)
(*    stands for an absent id.                                             *)
(*  - Date.now() is the variable now, in milliseconds.                     *)
(*  - The ReportClient (runAppfolioReport / runAppfolioReportNextPage) is  *)
(*    the environment: every operation receives a script of responses that *)
(*    are served in call order; a call past the end of the script fails.   *)
(*  - The history caps MAX_STORED_* are scaled down (the code has 5000 /    *)
(*    10000 / 20000 / 5000) so that trimming happens within the explored   *)
(*    runs; they are model bounds, and every statement that depends on a   *)
(*    cap names it.                                                        *)
(***************************************************************************)
EXTENDS Integers, Sequences, FiniteSets, TLC

VARIABLES
  store,     \* the persisted WorkforceStoreFile document
  now,       \* Date.now()
  nextId,    \* source of fresh ids (randomUUID)
  lastCall,  \* request and response of the most recent public operation
  calls,     \* number of public operations called so far
  inflight   \* per caller: an update that has loaded but not yet saved

vars == <<store, now, nextId, lastCall, calls, inflight>>

----------------------------------------------------------------------------
(* Bounds of the exploration                                               *)

MaxCalls == 3
MaxClock == 1
MAX_STORED_RUNS == 2
MAX_STORED_RECEIPTS == 4
MAX_STORED_REPLAYFRAMES == 6
MAX_STORED_DECISIONS == 2

(* Program constants                                                       *)

MIN_INTERVAL_MS == 60000
DECISION_TTL_MS == 86400000
BACKPRESSURE_FACTOR == 4

(* The clock starts at StartMs and advances in steps of TICK_MS.           *)
TICK_MS == MIN_INTERVAL_MS
StartMs == 10 * MIN_INTERVAL_MS

NoId == 0
NONE == "none"

----------------------------------------------------------------------------
(* Token strings                                                           *)

RECURSIVE TrimStart(_)
TrimStart(s) == IF s # <<>> /\ Head(s) = " " THEN TrimStart(Tail(s)) ELSE s

RECURSIVE TrimEnd(_)
TrimEnd(s) ==
  IF s # <<>> /\ s[Len(s)] = " " THEN TrimEnd(SubSeq(s, 1, Len(s) - 1)) ELSE s

Trim(s) == TrimEnd(TrimStart(s))

LowerToken(t) ==
  CASE t = "Deploy" -> "deploy"
    [] t = "Prod" -> "prod"
    [] t = "Appfolio" -> "appfolio"
    [] OTHER -> t

ToLowerCase(s) == [i \in 1..Len(s) |-> LowerToken(s[i])]

StartsWith(s, p) == Len(p) <= Len(s) /\ SubSeq(s, 1, Len(p)) = p

Includes(s, p) ==
  \E i \in 0..(Len(s) - Len(p)) : SubSeq(s, i + 1, i + Len(p)) = p

----------------------------------------------------------------------------
(* Roster                                                                  *)

AUTONOMY_MODES == {"manual", "supervised", "autonomous"}

SeatIds ==
  {"ops-lead", "queue-manager", "scheduler", "ui-operator", "qa-reviewer",
   "security-analyst", "incident-commander", "knowledge-curator"}

RosterSeat(mode, access) == [autonomyMode |-> mode, systemsAccess |-> access]

WORKFORCE_ROSTER ==
  [s \in SeatIds |->
    CASE s = "ops-lead" ->
           RosterSeat("supervised", {"queue-service", "scheduler-service", "ops-dashboard"})
      [] s = "queue-manager" ->
           RosterSeat("autonomous", {"queue-service", "routing-service"})
      [] s = "scheduler" ->
           RosterSeat("autonomous", {"scheduler-service", "calendar-service"})
      [] s = "ui-operator" ->
           RosterSeat("manual", {"ui-service", "queue-service"})
      [] s = "qa-reviewer" ->
           RosterSeat("supervised", {"qa-service", "reporting-service"})
      [] s = "security-analyst" ->
           RosterSeat("supervised", {"security-service", "audit-log-service"})
      [] s = "incident-commander" ->
           RosterSeat("manual", {"incident-service", "queue-service", "scheduler-service"})
      [] OTHER ->
           RosterSeat("manual", {"knowledge-base", "ui-service"})]

normalizeSeatId(value) == IF value \in SeatIds THEN value ELSE NONE

POLICY_PROFILE_IDS == {"balanced", "strict-change-control", "autonomous-ops"}

isPolicyProfileId(value) == value \in POLICY_PROFILE_IDS

----------------------------------------------------------------------------
(* Risk level and policy profile                                           *)

deriveRiskLevel(action) ==
  LET normalized == ToLowerCase(Trim(action))
  IN IF \/ Includes(normalized, <<"deploy">>)
        \/ Includes(normalized, <<"broadcast">>)
        \/ Includes(normalized, <<"security", ".", "block">>)
        \/ Includes(normalized, <<"incident">>)
     THEN "high"
     ELSE IF \/ Includes(normalized, <<"review">>)
             \/ Includes(normalized, <<"approve">>)
             \/ Includes(normalized, <<"retro">>)
             \/ Includes(normalized, <<"standup">>)
          THEN "medium"
          ELSE "low"

isOpsAction(action) ==
  \/ StartsWith(action, <<"queue", ".">>)
  \/ StartsWith(action, <<"scheduler", ".">>)
  \/ StartsWith(action, <<"patrol", ":">>)

resolvePolicyProfile(action, payload, workspaceProfile) ==
  IF isPolicyProfileId(payload.policyProfileId) THEN payload.policyProfileId
  ELSE LET normalized == ToLowerCase(Trim(action))
       IN IF \/ StartsWith(normalized, <<"deploy", ".">>)
             \/ Includes(normalized, <<"incident">>)
             \/ StartsWith(normalized, <<"security", ".">>)
          THEN "strict-change-control"
          ELSE IF isOpsAction(normalized) THEN "autonomous-ops"
               ELSE workspaceProfile

----------------------------------------------------------------------------
(* Records of the store                                                    *)

Art(k, v, n) == [k |-> k, v |-> v, n |-> n]

(* A run summary: a code, a text argument and up to three numbers          *)
SummaryN(code, arg, n1, n2, n3) ==
  [code |-> code, arg |-> arg, n1 |-> n1, n2 |-> n2, n3 |-> n3]

Summary(code, arg) == SummaryN(code, arg, 0, 0, 0)

DefaultPayload ==
  [writebackReceiptId |-> NoId,
   policyProfileId |-> NONE,
   reportFilters |-> [given |-> FALSE, fields |-> <<>>],
   pagination |-> [given |-> FALSE, autoPaginate |-> TRUE, maxPages |-> 0, maxRows |-> 0],
   includeRows |-> TRUE,
   rowLimit |-> [given |-> FALSE, value |-> 0]]

ActionInput(seatId, action, source, actor, requireWritebackReceipt, payload) ==
  [seatId |-> seatId, action |-> action, source |-> source, actor |-> actor,
   requireWritebackReceipt |-> requireWritebackReceipt, payload |-> payload]

defaultIntervalMsForSeat(seatId) ==
  IF seatId \notin SeatIds THEN 86400000
  ELSE IF WORKFORCE_ROSTER[seatId].autonomyMode = "autonomous" THEN 60 * 60 * 1000
  ELSE IF WORKFORCE_ROSTER[seatId].autonomyMode = "supervised" THEN 4 * 60 * 60 * 1000
  ELSE 8 * 60 * 60 * 1000

SeatOrder ==
  <<"ops-lead", "queue-manager", "scheduler", "ui-operator", "qa-reviewer",
    "security-analyst", "incident-commander", "knowledge-curator">>

createDefaultStore(ts) ==
  [version |-> 1,
   initializedAtMs |-> ts,
   updatedAtMs |-> ts,
   seats |-> [s \in SeatIds |->
               [autonomyMode |-> WORKFORCE_ROSTER[s].autonomyMode,
                status |-> "idle",
                lastRunAtMs |-> 0]],
   queues |-> [s \in SeatIds |->
                [concurrency |->
                   IF WORKFORCE_ROSTER[s].autonomyMode = "autonomous" THEN 2 ELSE 1,
                 backpressurePolicy |-> "block",
                 pending |-> 0]],
   schedules |-> [i \in 1..Len(SeatOrder) |->
                   [id |-> NoId,
                    seatId |-> SeatOrder[i],
                    enabled |-> FALSE,
                    intervalMs |-> defaultIntervalMsForSeat(SeatOrder[i]),
                    maxConcurrentRuns |-> 1,
                    nextRunAtMs |-> ts + defaultIntervalMsForSeat(SeatOrder[i]),
                    lastRunAtMs |-> 0,
                    action |-> <<"patrol", ":", SeatOrder[i]>>]],
   decisions |-> <<>>,
   receipts |-> <<>>,
   replayframes |-> <<>>,
   runs |-> <<>>,
   workspace |-> [appfolioWritebackEnforced |-> TRUE,
                  defaultChannel |-> "appfolio",
                  policyProfile |-> "balanced"],
   seqByRunId |-> <<>>]

(* seqByRunId is a map runId -> counter; a missing key reads as 0          *)
SeqOf(st, runId) ==
  IF runId \in DOMAIN st.seqByRunId THEN st.seqByRunId[runId] ELSE 0

(* slice(0, n): the oldest entries kept                                    *)
FirstN(s, n) == IF Len(s) > n THEN SubSeq(s, 1, n) ELSE s

(* slice(-n) of an array longer than n                                     *)
LastN(s, n) == IF Len(s) > n THEN SubSeq(s, Len(s) - n + 1, Len(s)) ELSE s

trimStore(st) ==
  [st EXCEPT !.runs = LastN(@, MAX_STORED_RUNS),
             !.receipts = LastN(@, MAX_STORED_RECEIPTS),
             !.replayframes = LastN(@, MAX_STORED_REPLAYFRAMES),
             !.decisions = LastN(@, MAX_STORED_DECISIONS)]

findQueue(st, seatId) == IF seatId \in DOMAIN st.queues THEN seatId ELSE NONE

(* the decrement without its test of queue.pending                         *)
decrementQueuePendingUnclamped(st, seatId) ==
  IF findQueue(st, seatId) = NONE THEN st
  ELSE [st EXCEPT !.queues[seatId].pending = @ - 1]

decrementQueuePending(st, seatId) ==
  IF findQueue(st, seatId) = NONE THEN st
  ELSE IF st.queues[seatId].pending > 0
       THEN [st EXCEPT !.queues[seatId].pending = @ - 1]
       ELSE st

NextSeq(prev) == prev + 1

(* appendReplay without the store of the counter                           *)
appendReplayCounterLost(st, runId, source, eventType, ref) ==
  [st EXCEPT !.replayframes =
     Append(@, [runId |-> runId, seq |-> NextSeq(SeqOf(st, runId)),
                eventType |-> eventType, payloadRef |-> ref, source |-> source])]

appendReplay(st, runId, source, eventType, ref) ==
  LET nextSeq == NextSeq(SeqOf(st, runId))
      frame == [runId |-> runId, seq |-> nextSeq, eventType |-> eventType,
                payloadRef |-> ref, source |-> source]
  IN [st EXCEPT
        !.seqByRunId = [r \in (DOMAIN st.seqByRunId) \cup {runId} |->
                          IF r = runId THEN nextSeq ELSE st.seqByRunId[r]],
        !.replayframes = Append(@, frame)]

Receipt(receiptId, runId, decisionId, actor, action, outcome) ==
  [receiptId |-> receiptId, runId |-> runId, decisionId |-> decisionId,
   actor |-> actor, action |-> action, outcome |-> outcome]

(* appendReceipt without the push                                          *)
appendReceiptDropped(st, receipt) == st

appendReceipt(st, receipt) == [st EXCEPT !.receipts = Append(@, receipt)]

createDecisionCard(st, decisionId, runId, seatId, title, riskLevel, createdAtMs) ==
  LET decision ==
        [decisionId |-> decisionId, runId |-> runId, seatId |-> seatId,
         title |-> title, recommended |-> "allow", riskLevel |-> riskLevel,
         status |-> "pending", createdAtMs |-> createdAtMs,
         expiresAtMs |-> createdAtMs + DECISION_TTL_MS,
         resolvedAtMs |-> 0, resolvedBy |-> NONE, resolution |-> NONE]
  IN [st EXCEPT !.decisions = Append(@, decision)]

----------------------------------------------------------------------------
(* Policy engine                                                           *)

Policy(decision, reason, profile) ==
  [decision |-> decision, reason |-> reason, profile |-> profile]

(* no receipt ever found                                                   *)
hasReceiptNever(st, payload) == FALSE

hasReceipt(st, payload) ==
  \E i \in 1..Len(st.receipts) :
    st.receipts[i].receiptId = payload.writebackReceiptId

(* the deploy.prod rule left out                                           *)
isProdDeployMissed(action) == FALSE

isProdDeploy(action) == Includes(action, <<"deploy", ".", "prod">>)

(* a supervised seat treated like an autonomous one                        *)
SupervisedDecisionAllow == "allow"

(* the decision of the autonomy fallback for a supervised seat             *)
SupervisedDecision == "escalate"

(* the queue counted as full one pending entry late                        *)
QueueFullLate(queue) == queue.pending > queue.concurrency * BACKPRESSURE_FACTOR

(* queue.pending >= queue.concurrency * 4                                  *)
QueueFull(queue) == queue.pending >= queue.concurrency * BACKPRESSURE_FACTOR

(* the comms gate left open                                                *)
CommsGateOpen(action, requireWritebackReceipt) == FALSE

(* action.startsWith("appfolio.comms.") && !input.requireWritebackReceipt  *)
CommsGate(action, requireWritebackReceipt) ==
  StartsWith(action, <<"appfolio", ".", "comms", ".">>) /\ ~requireWritebackReceipt

evaluatePolicy(seatId, actionIn, requireWritebackReceipt, payload, st) ==
  LET action == ToLowerCase(Trim(actionIn))
      profile == resolvePolicyProfile(action, payload, st.workspace.policyProfile)
      riskLevel == deriveRiskLevel(action)
  IN IF seatId \notin SeatIds
     THEN Policy("block", "unknown seat", profile)
     ELSE LET seat == WORKFORCE_ROSTER[seatId]
              queue == st.queues[seatId]
     IN IF /\ requireWritebackReceipt
           /\ st.workspace.appfolioWritebackEnforced
           /\ "queue-service" \in seat.systemsAccess
           /\ ~hasReceipt(st, payload)
        THEN Policy("block", "appfolio_writeback_receipt_required", profile)
        ELSE IF queue.backpressurePolicy = "block" /\ QueueFull(queue)
        THEN Policy("block", "queue_backpressure_block", profile)
        ELSE IF CommsGate(action, requireWritebackReceipt)
        THEN Policy("block", "appfolio_action_requires_writeback_gate", profile)
        ELSE IF profile = "strict-change-control" /\ riskLevel = "high"
        THEN Policy("escalate", "strict_profile_high_risk", profile)
        ELSE IF /\ profile = "strict-change-control"
                /\ seat.autonomyMode = "autonomous"
                /\ riskLevel # "low"
        THEN Policy("escalate", "strict_profile_autonomous_guard", profile)
        ELSE IF /\ profile = "autonomous-ops"
                /\ isOpsAction(action)
                /\ seat.autonomyMode = "supervised"
                /\ riskLevel # "high"
        THEN Policy("allow", "autonomous_ops_supervised_allow", profile)
        ELSE IF isProdDeploy(action)
        THEN Policy("escalate", "prod_deploy_requires_approval", profile)
        ELSE IF seat.autonomyMode \notin AUTONOMY_MODES
        THEN Policy("block", "invalid_autonomy_mode", profile)
        ELSE IF seat.autonomyMode = "autonomous"
        THEN Policy("allow", "autonomy_allow", profile)
        ELSE IF seat.autonomyMode = "supervised"
        THEN Policy(SupervisedDecision, "autonomy_supervised", profile)
        ELSE Policy("escalate", "autonomy_manual", profile)

----------------------------------------------------------------------------
(* Run / ledger manager                                                    *)

RunStatusFor(decision) ==
  IF decision = "allow" THEN "ok"
  ELSE IF decision = "block" THEN "blocked" ELSE "escalated"

(* The run of the current operation is the last element of runs; the       *)
(* result's run is that same object.                                       *)
CurRun(st) == st.runs[Len(st.runs)]

(* run.artifacts.push(...) on the run of the current operation             *)
PushArtifacts(st, arts) ==
  [st EXCEPT !.runs[Len(st.runs)].artifacts = @ \o arts]

(* The run record that executeActionInStore builds.                        *)
NewRun(runId, input, action, riskLevel, policyEval, ts) ==
  [runId |-> runId, source |-> input.source, seatId |-> input.seatId,
   action |-> action, riskLevel |-> riskLevel,
   policyProfile |-> policyEval.profile,
   policyDecision |-> policyEval.decision,
   status |-> RunStatusFor(policyEval.decision),
   startedAtMs |-> ts, endedAtMs |-> ts,
   summary |-> Summary(policyEval.reason, ""),
   error |-> NONE,
   artifacts |-> <<Art("seat", input.seatId, 0), Art("risk", riskLevel, 0)>>]

(* seat.lastRunAtMs / seat.status of an existing seat                      *)
MarkSeat(st, seatId, status, ts) ==
  IF seatId \in DOMAIN st.seats
  THEN [st EXCEPT !.seats[seatId] = [@ EXCEPT !.lastRunAtMs = ts, !.status = status]]
  ELSE st

(* an escalation counted twice on its queue                                *)
incrementQueuePendingTwice(st, seatId) ==
  IF findQueue(st, seatId) = NONE THEN st
  ELSE [st EXCEPT !.queues[seatId].pending = @ + 2]

incrementQueuePending(st, seatId) ==
  IF findQueue(st, seatId) = NONE THEN st
  ELSE [st EXCEPT !.queues[seatId].pending = @ + 1]

(* The escalate branch: decision card, artifact, frame, queue pending.     *)
EscalateRun(st, decisionId, runId, seatId, source, riskLevel, ts) ==
  incrementQueuePending(
    appendReplay(
      PushArtifacts(
        createDecisionCard(st, decisionId, runId, seatId, "Approval required",
                           riskLevel, ts),
        <<Art("decision", "", decisionId)>>),
      runId, source, "decision.created", NoId),
    seatId)

(* the closing frames of an allowed run written in the opposite order      *)
CloseRunCompletedFirst(st, decision, runId, seatId, source) ==
  IF decision = "allow"
  THEN decrementQueuePending(
         appendReplay(appendReplay(st, runId, source, "run.completed", NoId),
                      runId, source, "run.running", NoId),
         seatId)
  ELSE IF decision = "block"
  THEN decrementQueuePending(appendReplay(st, runId, source, "run.blocked", NoId), seatId)
  ELSE st

(* The closing frames of an allowed or blocked run and the release of its  *)
(* queue slot; an escalated run stays open.                                *)
CloseRun(st, decision, runId, seatId, source) ==
  IF decision = "allow"
  THEN decrementQueuePending(
         appendReplay(appendReplay(st, runId, source, "run.running", NoId),
                      runId, source, "run.completed", NoId),
         seatId)
  ELSE IF decision = "block"
  THEN decrementQueuePending(appendReplay(st, runId, source, "run.blocked", NoId), seatId)
  ELSE st

(* a decision card for every outcome other than allow                      *)
NeedsApprovalUnlessAllowed(decision) == decision # "allow"

(* if (policyEval.decision === "escalate")                                 *)
NeedsApproval(decision) == decision = "escalate"

(* The body of executeActionInStore once the policy has been evaluated.    *)
(* The ids it draws are id0 (run), id0+1 (decision card, on escalate) and  *)
(* the next one (receipt).                                                 *)
RecordRun(st, input, ts, id0, action, riskLevel, policyEval) ==
  LET escalate == NeedsApproval(policyEval.decision)
      decisionId == IF escalate THEN id0 + 1 ELSE NoId
      receiptId == IF escalate THEN id0 + 2 ELSE id0 + 1
      Opened(s) ==
        appendReplay(
          MarkSeat([s EXCEPT !.runs = Append(@, NewRun(id0, input, action, riskLevel,
                                                       policyEval, ts))],
                   input.seatId,
                   IF policyEval.decision = "allow" THEN "idle" ELSE "blocked", ts),
          id0, input.source, "run.created", NoId)
      Escalated(s) ==
        IF escalate
        THEN EscalateRun(s, decisionId, id0, input.seatId, input.source, riskLevel, ts)
        ELSE s
      Receipted(s) ==
        appendReceipt(s, Receipt(receiptId, id0, decisionId, input.actor, action,
                                 policyEval.decision))
  IN [store |-> CloseRun(Receipted(Escalated(Opened(st))), policyEval.decision, id0,
                         input.seatId, input.source),
      policy |-> policyEval,
      decisionId |-> decisionId,
      receiptId |-> receiptId,
      nextId |-> receiptId + 1]

executeActionInStore(st, input, ts, id0) ==
  RecordRun(st, input, ts, id0, Trim(input.action), deriveRiskLevel(Trim(input.action)),
            evaluatePolicy(input.seatId, Trim(input.action),
                           input.requireWritebackReceipt, input.payload, st))

----------------------------------------------------------------------------
(* Report presets: payloads, validation, pagination options                *)
(*                                                                         *)
(* A filter value is [kind, day]: kind "undefined" (key absent), "empty"   *)
(* (the empty string), "text" (a string that is no YYYY-MM-DD date),       *)
(* "date" (a valid date, day = days since the epoch) or "object".  A       *)
(* payload is a function from filter keys to values; an override names     *)
(* only the keys it sets.                                                  *)

DAY_MS == 86400000
DAY_2000 == 10957
WIDE_RANGE_DAYS == 366

Val(kind, day) == [kind |-> kind, day |-> day]
Undefined == Val("undefined", 0)
DateVal(day) == Val("date", day)

FilterKeys ==
  {"as_of_to", "status_date_range_from", "status_date_range_to",
   "occurred_on_from", "occurred_on_to", "properties"}

PresetIds ==
  {"rent_roll", "delinquency", "work_order", "bill_detail", "vendor_ledger",
   "vendor_ledger_enhanced"}

WorkflowIds == {"smart_bill_triage", "smart_bill_reconcile", "smart_bill_daily"}

WorkflowPresetIds(workflowId) ==
  CASE workflowId = "smart_bill_triage" -> <<"bill_detail", "work_order">>
    [] workflowId = "smart_bill_reconcile" -> <<"bill_detail", "vendor_ledger_enhanced">>
    [] OTHER -> <<"bill_detail", "vendor_ledger_enhanced", "work_order">>

(* formatYmd(new Date(nowMs - days * dayMs)), as a day number              *)
dateDaysAgo(nowMs, days) == DateVal((nowMs \div DAY_MS) - days)

buildWorkforceAppfolioReportPayload(presetId, nowMs) ==
  [k \in FilterKeys |->
    IF k = "properties" THEN Val("object", 0)
    ELSE IF presetId \in {"rent_roll", "delinquency"}
         THEN (IF k = "as_of_to" THEN dateDaysAgo(nowMs, 0) ELSE Undefined)
    ELSE IF presetId = "work_order"
         THEN (IF k = "status_date_range_from" THEN dateDaysAgo(nowMs, 14)
               ELSE IF k = "status_date_range_to" THEN dateDaysAgo(nowMs, 0)
               ELSE Undefined)
    ELSE (IF k = "occurred_on_from" THEN dateDaysAgo(nowMs, 30)
          ELSE IF k = "occurred_on_to" THEN dateDaysAgo(nowMs, 0)
          ELSE Undefined)]

mergePayload(base, overrides) ==
  [k \in FilterKeys |-> IF k \in DOMAIN overrides THEN overrides[k] ELSE base[k]]

parseYmdDate(value) == value.kind = "date"

Issue(code, key) == [code |-> code, key |-> key]

ensureDateField(payload, key, required) ==
  LET value == payload[key]
  IN IF value.kind \in {"undefined", "empty"}
     THEN [errors |-> IF required THEN <<Issue("missing_required_filter", key)>> ELSE <<>>,
           warnings |-> <<>>]
     ELSE IF ~parseYmdDate(value)
     THEN [errors |-> <<Issue("invalid_date_filter", key)>>, warnings |-> <<>>]
     ELSE [errors |-> <<>>,
           warnings |-> IF value.day < DAY_2000
                        THEN <<Issue("suspicious_date_filter", key)>> ELSE <<>>]

ensureDateRange(payload, fromKey, toKey, required) ==
  LET f == ensureDateField(payload, fromKey, required)
      t == ensureDateField(payload, toKey, required)
      both == parseYmdDate(payload[fromKey]) /\ parseYmdDate(payload[toKey])
      fromDay == payload[fromKey].day
      toDay == payload[toKey].day
  IN [errors |-> f.errors \o t.errors \o
                 (IF both /\ fromDay > toDay
                  THEN <<Issue("invalid_date_range", fromKey)>> ELSE <<>>),
      warnings |-> f.warnings \o t.warnings \o
                   (IF both /\ fromDay <= toDay /\ toDay - fromDay > WIDE_RANGE_DAYS
                    THEN <<Issue("wide_date_range", fromKey)>> ELSE <<>>)]

ensureObjectField(payload, key) ==
  IF payload[key].kind = "undefined"
  THEN <<Issue("missing_recommended_filter", key)>>
  ELSE IF payload[key].kind # "object"
       THEN <<Issue("invalid_filter_shape", key)>>
       ELSE <<>>

validateWorkforceAppfolioReportPayload(presetId, payload) ==
  LET dates ==
        CASE presetId = "rent_roll" -> ensureDateField(payload, "as_of_to", TRUE)
          [] presetId = "delinquency" -> ensureDateField(payload, "as_of_to", FALSE)
          [] presetId = "work_order" ->
               ensureDateRange(payload, "status_date_range_from",
                               "status_date_range_to", TRUE)
          [] OTHER ->
               ensureDateRange(payload, "occurred_on_from", "occurred_on_to", TRUE)
  IN [ok |-> dates.errors = <<>>,
      errors |-> dates.errors,
      warnings |-> dates.warnings \o ensureObjectField(payload, "properties")]

DEFAULT_MAX_PAGES == 3
DEFAULT_MAX_ROWS == 15000
MAX_WORKFORCE_APPFOLIO_PAGES == 20
MAX_WORKFORCE_APPFOLIO_ROWS == 200000

clampNumber(value, min, max) ==
  IF value < min THEN min ELSE IF value > max THEN max ELSE value

normalizeWorkforceAppfolioPaginationOptions(input) ==
  IF ~input.given
  THEN [autoPaginate |-> TRUE, maxPages |-> DEFAULT_MAX_PAGES, maxRows |-> DEFAULT_MAX_ROWS]
  ELSE [autoPaginate |-> input.autoPaginate,
        maxPages |-> clampNumber(input.maxPages, 1, MAX_WORKFORCE_APPFOLIO_PAGES),
        maxRows |-> clampNumber(input.maxRows, 1, MAX_WORKFORCE_APPFOLIO_ROWS)]

(* "appfolio.report.run:<presetId>" / "appfolio.workflow.run:<workflowId>"  *)
ParseJobId(action, kind, ids) ==
  LET normalized == ToLowerCase(Trim(action))
      prefix == <<"appfolio", ".", kind, ".", "run", ":">>
  IN IF StartsWith(normalized, prefix) /\ Len(normalized) = Len(prefix) + 1
        /\ normalized[Len(normalized)] \in ids
     THEN normalized[Len(normalized)]
     ELSE NONE

parseWorkforceAppfolioReportPresetId(action) == ParseJobId(action, "report", PresetIds)

parseWorkforceAppfolioWorkflowId(action) == ParseJobId(action, "workflow", WorkflowIds)

----------------------------------------------------------------------------
(* ReportClient: the server's pages are scripted by the environment.  A    *)
(* page is [ok, count, next, rows]; count = -1 stands for a response whose *)
(* row count is not a number, next says whether it names a next page.      *)

CLIENT_DEFAULT_MAX_ROWS == 200
CLIENT_MAX_ROWS == 5000

Page(ok, count, next, rows) ==
  [ok |-> ok, count |-> count, next |-> next, rows |-> rows, error |-> NONE]

(* A request that fails: fetch throws, or the server answers with an HTTP  *)
(* error status.  The client returns the failure with its error text.      *)
ErrorPage(error) == [Page(FALSE, -1, FALSE, <<>>) EXCEPT !.error = error]

FailedPage == ErrorPage("appfolio_reports_request_failed")

normalizeMaxRows(value) ==
  IF value <= 0 THEN 1 ELSE IF value > CLIENT_MAX_ROWS THEN CLIENT_MAX_ROWS ELSE value

(* The response of call number k (1-based) of an operation.                *)
Serve(script, k) == IF k <= Len(script) THEN script[k] ELSE FailedPage

(* runAppfolioReport / runAppfolioReportNextPage on the served page.       *)
runAppfolioReport(page, includeRows, maxRows) ==
  LET limit == normalizeMaxRows(maxRows)
      included == IF includeRows THEN SubSeq(page.rows, 1, IF Len(page.rows) < limit
                                                          THEN Len(page.rows) ELSE limit)
                  ELSE <<>>
  IN IF ~page.ok
     THEN [ok |-> FALSE, count |-> -1, next |-> FALSE, rows |-> <<>>,
           rowsTruncated |-> FALSE, error |-> page.error]
     ELSE [ok |-> TRUE, count |-> page.count, next |-> page.next, rows |-> included,
           rowsTruncated |-> includeRows /\ Len(page.rows) > Len(included),
           error |-> NONE]

----------------------------------------------------------------------------
(* Report preset job                                                       *)

(* The pagination loop of maybeRunAppfolioReportJob.  p is the loop state  *)
(* [pagesFetched, next, knownRows, hasUnknownCount, truncated, warnings,   *)
(* calls]; calls counts the client requests made so far.                   *)
(* the page limit tested one page late                                     *)
PagesExhaustedLate(p, pagination) == p.pagesFetched > pagination.maxPages

(* if (pagesFetched >= pagination.maxPages)                                *)
PagesExhausted(p, pagination) == p.pagesFetched >= pagination.maxPages

(* the running total overwritten by the count of the page                  *)
AddRowsLatest(knownRows, page) == IF page.count >= 0 THEN page.count ELSE knownRows

(* if (typeof page.count === "number") knownRows += page.count             *)
AddRows(knownRows, page) == IF page.count >= 0 THEN knownRows + page.count ELSE knownRows

RECURSIVE PaginateLoop(_, _, _)
PaginateLoop(p, pagination, script) ==
  IF ~p.next THEN p
  ELSE IF PagesExhausted(p, pagination)
  THEN [p EXCEPT !.warnings = Append(@, Issue("pagination_max_pages_reached", "")),
                 !.truncated = TRUE]
  ELSE IF ~p.hasUnknownCount /\ p.knownRows >= pagination.maxRows
  THEN [p EXCEPT !.warnings = Append(@, Issue("pagination_max_rows_reached", "")),
                 !.truncated = TRUE]
  ELSE LET page == runAppfolioReport(Serve(script, p.calls + 1), FALSE,
                                     CLIENT_DEFAULT_MAX_ROWS)
       IN IF ~page.ok
          THEN [p EXCEPT !.warnings = Append(@, Issue("pagination_next_page_failed", page.error)),
                         !.truncated = TRUE,
                         !.calls = @ + 1]
          ELSE PaginateLoop(
                 [p EXCEPT !.pagesFetched = @ + 1,
                           !.knownRows = AddRows(@, page),
                           !.hasUnknownCount = @ \/ page.count < 0,
                           !.next = page.next,
                           !.calls = @ + 1],
                 pagination, script)

NoReport ==
  [matched |-> FALSE, presetId |-> NONE, ok |-> FALSE, count |-> -1,
   pagesFetched |-> 0, truncated |-> FALSE, warnings |-> <<>>,
   validationErrors |-> <<>>, error |-> NONE]

(* the policy check of the job runners left out                            *)
PolicyAllowsUnchecked(policy) == TRUE

PolicyAllows(policy) == policy = "allow"

ReportJobAction(presetId) == <<"appfolio", ".", "report", ".", "run", ":", presetId>>

(* requestPayload: the preset's default payload, merged with               *)
(* payload.reportFilters when that is a record.                            *)
RequestPayload(presetId, payload, ts) ==
  IF payload.reportFilters.given
  THEN mergePayload(buildWorkforceAppfolioReportPayload(presetId, ts),
                    payload.reportFilters.fields)
  ELSE buildWorkforceAppfolioReportPayload(presetId, ts)

(* The state of the pagination loop after the first response.              *)
FirstPage(report) ==
  [pagesFetched |-> IF report.ok THEN 1 ELSE 0,
   next |-> report.next,
   knownRows |-> IF report.count >= 0 THEN report.count ELSE 0,
   hasUnknownCount |-> report.count < 0,
   truncated |-> FALSE,
   warnings |-> <<>>,
   calls |-> 1]

StillHasNext(q) == [q EXCEPT !.truncated = @ \/ q.next]

Paginate(report, p0, pagination, script) ==
  IF report.ok /\ pagination.autoPaginate
  THEN StillHasNext(PaginateLoop(p0, pagination, script))
  ELSE IF report.ok /\ p0.next
  THEN [p0 EXCEPT !.warnings = Append(@, Issue("pagination_available_next_page", ""))]
  ELSE p0

(* the failure of a report job not written to the run                     *)
FailRunSkipped(st, summary, error) == st

FailRun(st, summary, error) ==
  [st EXCEPT !.runs[Len(st.runs)].status = "error",
             !.runs[Len(st.runs)].summary = summary,
             !.runs[Len(st.runs)].error = error]

SummarizeRun(st, summary) == [st EXCEPT !.runs[Len(st.runs)].summary = summary]

(* the client's error text replaced by the generic one                     *)
ClientErrorGeneric(report) == "appfolio_report_failed"

(* report.error ?? "appfolio_report_failed"                                *)
ClientError(report) ==
  IF report.error = NONE THEN "appfolio_report_failed" ELSE report.error

ReportCount(report, p1) ==
  IF report.ok THEN (IF p1.hasUnknownCount THEN -1 ELSE p1.knownRows) ELSE report.count

(* The policy-not-allow return of maybeRunAppfolioReportJob.               *)
ReportNotAllowed(st, presetId, validation, id0) ==
  [store |-> PushArtifacts(st, <<Art("appfolio_report", presetId, 0)>>),
   report |-> [NoReport EXCEPT !.matched = TRUE, !.presetId = presetId,
                 !.validationErrors = validation.errors,
                 !.error = "appfolio_report_policy_not_allow"],
   calls |-> 0, nextId |-> id0]

(* The validation-failed return of maybeRunAppfolioReportJob.              *)
ReportInvalid(st, presetId, validation, actor, source, id0) ==
  [store |->
     PushArtifacts(
       appendReceipt(
         appendReplay(
           FailRun(st, Summary("appfolio_report_validation_failed", presetId),
                   "appfolio_report_validation_failed"),
           CurRun(st).runId, source, "appfolio.report.failed", NoId),
         Receipt(id0, CurRun(st).runId, NoId, actor, ReportJobAction(presetId), "error")),
       <<Art("appfolio_report", presetId, 0),
         Art("appfolio_report_name", presetId, 0),
         Art("appfolio_validation_errors", "", Len(validation.errors))>>),
   report |-> [NoReport EXCEPT !.matched = TRUE, !.presetId = presetId,
                 !.validationErrors = validation.errors,
                 !.warnings = validation.warnings,
                 !.error = "appfolio_report_validation_failed"],
   calls |-> 0, nextId |-> id0 + 1]

(* The rest of maybeRunAppfolioReportJob once the first response (report)  *)
(* and the pagination loop's final state (p1) are known.                   *)
ReportFetched(st, presetId, validation, report, p1, actor, source, id0) ==
  LET count == ReportCount(report, p1)
      Tagged(s) ==
        PushArtifacts(s,
          <<Art("appfolio_report", presetId, 0),
            Art("appfolio_report_name", presetId, 0)>>
          \o (IF p1.next THEN <<Art("appfolio_next_page", "", 0)>> ELSE <<>>)
          \o (IF p1.truncated THEN <<Art("appfolio_pagination", "truncated", 0)>>
              ELSE <<>>)
          \o <<Art("appfolio_pages_fetched", "", p1.pagesFetched)>>)
      Summarized(s) ==
        IF report.ok
        THEN SummarizeRun(s, SummaryN("appfolio_report", presetId,
                                      IF count >= 0 THEN count ELSE 0,
                                      p1.pagesFetched, 0))
        ELSE FailRun(s, Summary(ClientError(report), ""), ClientError(report))
  IN [store |->
        appendReceipt(
          appendReplay(Summarized(Tagged(st)), CurRun(st).runId, source,
                       IF report.ok THEN "appfolio.report.completed"
                       ELSE "appfolio.report.failed", NoId),
          Receipt(id0, CurRun(st).runId, NoId, actor, ReportJobAction(presetId),
                  IF report.ok THEN "ok" ELSE "error")),
      report |-> [matched |-> TRUE, presetId |-> presetId, ok |-> report.ok,
                  count |-> count, pagesFetched |-> p1.pagesFetched,
                  truncated |-> p1.truncated,
                  warnings |-> validation.warnings \o p1.warnings,
                  validationErrors |-> validation.errors,
                  error |-> report.error],
      calls |-> p1.calls, nextId |-> id0 + 1]

(* The client request of maybeRunAppfolioReportJob and its pagination.     *)
ReportRequested(st, presetId, validation, pagination, report, actor, source, id0, script) ==
  ReportFetched(st, presetId, validation, report,
                Paginate(report, FirstPage(report), pagination, script),
                actor, source, id0)

(* maybeRunAppfolioReportJob for a parsed preset id, with the validation   *)
(* of the request payload.                                                 *)
ReportJob(st, policy, presetId, validation, pagination, actor, source, id0, script) ==
  IF ~PolicyAllows(policy)
  THEN ReportNotAllowed(st, presetId, validation, id0)
  ELSE IF ~validation.ok
  THEN ReportInvalid(st, presetId, validation, actor, source, id0)
  ELSE ReportRequested(st, presetId, validation, pagination,
                       runAppfolioReport(Serve(script, 1), FALSE, CLIENT_DEFAULT_MAX_ROWS),
                       actor, source, id0, script)

ReportJobFor(st, policy, presetId, payload, actor, source, ts, id0, script) ==
  IF presetId = NONE
  THEN [store |-> st, report |-> NoReport, calls |-> 0, nextId |-> id0]
  ELSE ReportJob(st, policy, presetId,
                 validateWorkforceAppfolioReportPayload(
                   presetId, RequestPayload(presetId, payload, ts)),
                 normalizeWorkforceAppfolioPaginationOptions(payload.pagination),
                 actor, source, id0, script)

(* maybeRunAppfolioReportJob on the run that executeActionInStore has just *)
(* appended.  Returns the store, the job result, the number of client      *)
(* requests made and the next fresh id.                                    *)
maybeRunAppfolioReportJob(st, policy, action, payload, actor, source, ts, id0, script) ==
  ReportJobFor(st, policy, parseWorkforceAppfolioReportPresetId(action), payload, actor,
               source, ts, id0, script)

----------------------------------------------------------------------------
(* Smart Bill review of bill_detail rows                                   *)
(* A row is [vendor, property, amount, date, reference]; "" is a blank or  *)
(* missing field.                                                          *)

Row(vendor, property, amount, date, reference) ==
  [vendor |-> vendor, property |-> property, amount |-> amount, date |-> date,
   reference |-> reference]

(* Number(value).toFixed(2) on the amounts that occur in the scripts       *)
normalizeRowAmount(value) ==
  CASE value = "100" -> "100.00"
    [] value = "100.00" -> "100.00"
    [] value = "$100.00" -> "100.00"
    [] value = "250.5" -> "250.50"
    [] OTHER -> ""

RowKey(row) ==
  <<IF row.vendor = "" THEN "unknown_vendor" ELSE row.vendor,
    IF normalizeRowAmount(row.amount) = "" THEN "unknown_amount"
    ELSE normalizeRowAmount(row.amount),
    IF row.date = "" THEN "unknown_date" ELSE row.date,
    IF row.reference = "" THEN "unknown_reference" ELSE row.reference>>

CountWhere(rows, P(_)) == Cardinality({i \in 1..Len(rows) : P(rows[i])})

summarizeSmartBillBillDetailRows(rows) ==
  LET keys == {RowKey(rows[i]) : i \in 1..Len(rows)}
      occurrences(k) == Cardinality({i \in 1..Len(rows) : RowKey(rows[i]) = k})
      MissingVendor(r) == r.vendor = ""
      MissingProperty(r) == r.property = ""
      MissingAmount(r) == normalizeRowAmount(r.amount) = ""
  IN [rows |-> Len(rows),
      duplicates |-> Cardinality({k \in keys : occurrences(k) > 1}),
      missingVendor |-> CountWhere(rows, MissingVendor),
      missingProperty |-> CountWhere(rows, MissingProperty),
      missingAmount |-> CountWhere(rows, MissingAmount)]

NoSummary ==
  [rows |-> -1, duplicates |-> 0, missingVendor |-> 0, missingProperty |-> 0,
   missingAmount |-> 0]

(* The loop of collectAppfolioReportRows; c is [rows, next, truncated,     *)
(* calls], base the number of client requests made before this step.       *)
RECURSIVE CollectLoop(_, _, _, _)
CollectLoop(c, maxRows, script, base) ==
  IF c.truncated \/ ~c.next \/ Len(c.rows) >= maxRows THEN c
  ELSE LET page == runAppfolioReport(Serve(script, base + c.calls + 1), TRUE,
                                     maxRows - Len(c.rows))
       IN IF ~page.ok
          THEN [c EXCEPT !.truncated = TRUE, !.calls = @ + 1]
          ELSE CollectLoop([c EXCEPT !.rows = @ \o page.rows,
                                     !.next = page.next,
                                     !.truncated = page.rowsTruncated,
                                     !.calls = @ + 1],
                           maxRows, script, base)

collectAppfolioReportRows(maxRowsIn, script, base) ==
  LET maxRows == IF maxRowsIn < 1 THEN 1 ELSE maxRowsIn
      first == runAppfolioReport(Serve(script, base + 1), TRUE, maxRows)
  IN IF ~first.ok
     THEN [ok |-> FALSE, rows |-> <<>>, truncated |-> FALSE, calls |-> 1]
     ELSE LET c == CollectLoop([rows |-> first.rows, next |-> first.next,
                                truncated |-> first.rowsTruncated, calls |-> 1],
                               maxRows, script, base)
          IN [ok |-> TRUE, rows |-> c.rows, truncated |-> c.truncated \/ c.next,
              calls |-> c.calls]

----------------------------------------------------------------------------
(* Workflow job                                                            *)

WORKFLOW_DEFAULT_ROW_LIMIT == 5000
WORKFLOW_MAX_ROW_LIMIT == 50000

clampRows(value, given, fallback) ==
  LET candidate == IF given THEN value ELSE fallback
  IN IF candidate <= 0 THEN 1
     ELSE IF candidate > WORKFLOW_MAX_ROW_LIMIT THEN WORKFLOW_MAX_ROW_LIMIT
     ELSE candidate

StepAction(workflowId, presetId) ==
  <<"appfolio", ".", "workflow", ".", "step", ":", workflowId, ":", presetId>>

(* The end of one workflow step: a frame and a receipt for the step, and   *)
(* the counters of the loop.  w is [store, calls, okSteps, failedSteps,    *)
(* smart, nextId].                                                         *)
StepRecorded(w, st, workflowId, presetId, ok, stepCalls, actor, source) ==
  [w EXCEPT
     !.store = appendReceipt(
                 appendReplay(st, CurRun(st).runId, source,
                              IF ok THEN "appfolio.workflow.step.completed"
                              ELSE "appfolio.workflow.step.failed", NoId),
                 Receipt(w.nextId, CurRun(st).runId, NoId, actor,
                         StepAction(workflowId, presetId),
                         IF ok THEN "ok" ELSE "error")),
     !.calls = @ + stepCalls,
     !.okSteps = IF ok THEN @ + 1 ELSE @,
     !.failedSteps = IF ok THEN @ ELSE @ + 1,
     !.nextId = @ + 1]

WithSmart(w, smart) == [w EXCEPT !.smart = smart]

(* The bill_detail step with rows: rowsRes is what                         *)
(* collectAppfolioReportRows returned, smart the review of its rows.       *)
BillDetailStep(w, workflowId, presetId, rowsRes, smart, actor, source) ==
  IF rowsRes.ok
  THEN WithSmart(
         StepRecorded(w,
           PushArtifacts(w.store,
             <<Art("appfolio_bill_detail_rows", "", smart.rows),
               Art("smart_bill_duplicates", "", smart.duplicates)>>
             \o (IF rowsRes.truncated
                 THEN <<Art("appfolio_rows", "truncated", 0)>> ELSE <<>>)),
           workflowId, presetId, TRUE, rowsRes.calls, actor, source),
         smart)
  ELSE StepRecorded(w, w.store, workflowId, presetId, FALSE, rowsRes.calls, actor, source)

(* Any other step: one client request, report is its response.             *)
ReportStep(w, workflowId, presetId, report, actor, source) ==
  IF presetId = "bill_detail"
  THEN [w EXCEPT !.calls = @ + 1,
                 !.okSteps = IF report.ok THEN @ + 1 ELSE @,
                 !.failedSteps = IF report.ok THEN @ ELSE @ + 1]
  ELSE StepRecorded(w,
         PushArtifacts(w.store,
           <<Art("appfolio_step_ok", presetId, IF report.ok THEN 1 ELSE 0)>>
           \o (IF report.count >= 0
               THEN <<Art("appfolio_step_rows", presetId, report.count)>>
               ELSE <<>>)),
         workflowId, presetId, report.ok, 1, actor, source)

CollectedStep(w, workflowId, presetId, rowsRes, actor, source) ==
  BillDetailStep(w, workflowId, presetId, rowsRes,
                 summarizeSmartBillBillDetailRows(rowsRes.rows), actor, source)

(* One step of the workflow loop.                                          *)
WorkflowStep(w, workflowId, presetId, includeRows, maxRows, actor, source, script) ==
  IF presetId = "bill_detail" /\ includeRows
  THEN CollectedStep(w, workflowId, presetId,
                     collectAppfolioReportRows(maxRows, script, w.calls), actor, source)
  ELSE ReportStep(w, workflowId, presetId,
                  runAppfolioReport(Serve(script, w.calls + 1), FALSE,
                                    CLIENT_DEFAULT_MAX_ROWS),
                  actor, source)

RECURSIVE WorkflowSteps(_, _, _, _, _, _, _, _)
WorkflowSteps(w, workflowId, presetIds, includeRows, maxRows, actor, source, script) ==
  IF presetIds = <<>> THEN w
  ELSE WorkflowSteps(
         WorkflowStep(w, workflowId, Head(presetIds), includeRows, maxRows, actor,
                      source, script),
         workflowId, Tail(presetIds), includeRows, maxRows, actor, source, script)

(* the rows without a vendor left out of the test                          *)
SmartBillFindingsDuplicatesOnly(smart) == smart.rows >= 0 /\ smart.duplicates > 0

SmartBillFindings(smart) ==
  smart.rows >= 0 /\ (smart.duplicates > 0 \/ smart.missingVendor > 0)

WorkflowMaxRows(payload) ==
  IF payload.rowLimit.given
  THEN clampRows(payload.rowLimit.value, TRUE, WORKFLOW_DEFAULT_ROW_LIMIT)
  ELSE clampRows(payload.pagination.maxRows, payload.pagination.given,
                 WORKFLOW_DEFAULT_ROW_LIMIT)

(* The Smart Bill findings card of a workflow run: a pending decision for  *)
(* seat ui-operator, linked to the run.                                    *)
FindingsCard(st, decisionId, source, ts) ==
  appendReplay(
    PushArtifacts(
      createDecisionCard(st, decisionId, CurRun(st).runId, "ui-operator",
                         "Smart Bill review findings", "medium", ts),
      <<Art("decision", "", decisionId)>>),
    CurRun(st).runId, source, "decision.created", NoId)

(* The end of maybeRunAppfolioWorkflowJob: w is the loop's final state.    *)
WorkflowDone(w, st, workflowId, source, ts) ==
  IF SmartBillFindings(w.smart)
  THEN [store |-> FindingsCard(st, w.nextId, source, ts), matched |-> TRUE,
        calls |-> w.calls, nextId |-> w.nextId + 1, decisionId |-> w.nextId,
        smart |-> w.smart]
  ELSE [store |-> st, matched |-> TRUE, calls |-> w.calls, nextId |-> w.nextId,
        decisionId |-> NoId, smart |-> w.smart]

WorkflowSummarized(w, workflowId, source, ts) ==
  WorkflowDone(w,
               SummarizeRun(w.store,
                            SummaryN("appfolio_workflow", workflowId, w.okSteps,
                                     w.failedSteps, w.smart.duplicates)),
               workflowId, source, ts)

WorkflowJob(st, policy, workflowId, payload, actor, source, ts, id0, script, calls0) ==
  IF workflowId = NONE
  THEN [store |-> st, matched |-> FALSE, calls |-> calls0, nextId |-> id0,
        decisionId |-> NoId, smart |-> NoSummary]
  ELSE IF ~PolicyAllows(policy)
  THEN [store |-> SummarizeRun(
                    PushArtifacts(st, <<Art("appfolio_workflow", workflowId, 0)>>),
                    Summary("appfolio_workflow_policy_not_allow", workflowId)),
        matched |-> TRUE, calls |-> calls0, nextId |-> id0,
        decisionId |-> NoId, smart |-> NoSummary]
  ELSE WorkflowSummarized(
         WorkflowSteps(
           [store |-> PushArtifacts(st, <<Art("appfolio_workflow", workflowId, 0)>>),
            calls |-> calls0, okSteps |-> 0, failedSteps |-> 0,
            smart |-> NoSummary, nextId |-> id0],
           workflowId, WorkflowPresetIds(workflowId), payload.includeRows,
           WorkflowMaxRows(payload), actor, source, script),
         workflowId, source, ts)

(* maybeRunAppfolioWorkflowJob; calls0 is the number of client requests    *)
(* the operation has made before it.                                       *)
maybeRunAppfolioWorkflowJob(st, policy, action, payload, actor, source, ts, id0, script, calls0) ==
  WorkflowJob(st, policy, parseWorkforceAppfolioWorkflowId(action), payload, actor,
              source, ts, id0, script, calls0)

----------------------------------------------------------------------------
(* Public operations: each is the updater handed to updateWorkforceStore,  *)
(* as a function of the loaded document.  ok = FALSE is a thrown error:    *)
(* nothing is saved.                                                       *)

sanitizeStore(input, ts) == IF input.version # 1 THEN createDefaultStore(ts) ELSE input

(* the error swallowed: the caller gets the message as a result            *)
FailedQuietly(st, id0, message) == [ok |-> TRUE, store |-> st, nextId |-> id0, result |-> message]

Failed(st, id0, message) ==
  [ok |-> FALSE, store |-> st, nextId |-> id0, error |-> message]

IndexOfRun(st, runId) ==
  IF \E i \in 1..Len(st.runs) : st.runs[i].runId = runId
  THEN CHOOSE i \in 1..Len(st.runs) :
         /\ st.runs[i].runId = runId
         /\ \A j \in 1..(i - 1) : st.runs[j].runId # runId
  ELSE 0

IndexOfDecision(st, decisionId) ==
  IF \E i \in 1..Len(st.decisions) : st.decisions[i].decisionId = decisionId
  THEN CHOOSE i \in 1..Len(st.decisions) :
         /\ st.decisions[i].decisionId = decisionId
         /\ \A j \in 1..(i - 1) : st.decisions[j].decisionId # decisionId
  ELSE 0

(* The action result after both job runners: e, r and w are what           *)
(* executeActionInStore and the two job runners returned.                  *)
JobsResult(e, r, w) ==
  [store |-> w.store,
   nextId |-> w.nextId,
   result |-> [policy |-> e.policy.decision,
               reason |-> e.policy.reason,
               profile |-> e.policy.profile,
               run |-> CurRun(w.store),
               decisionId |-> e.decisionId,
               receiptId |-> e.receiptId,
               report |-> r.report,
               workflow |-> w.matched,
               findingsDecisionId |-> w.decisionId,
               smart |-> w.smart,
               clientCalls |-> w.calls]]

WorkflowAfterReport(e, r, input, jobAction, jobActor, ts, script) ==
  JobsResult(e, r,
             maybeRunAppfolioWorkflowJob(r.store, e.policy.decision, jobAction,
                                         input.payload, jobActor, input.source, ts,
                                         r.nextId, script, r.calls))

JobsAfterRun(e, input, jobAction, jobActor, ts, script) ==
  WorkflowAfterReport(e,
                      maybeRunAppfolioReportJob(e.store, e.policy.decision, jobAction,
                                                input.payload, jobActor, input.source,
                                                ts, e.nextId, script),
                      input, jobAction, jobActor, ts, script)

(* executeActionInStore followed by the two job runners, as in             *)
(* executeWorkforceAction and in the loop body of tickWorkforceSchedules.  *)
RunActionWithJobs(st, input, jobAction, jobActor, ts, id0, script) ==
  JobsAfterRun(executeActionInStore(st, input, ts, id0), input, jobAction, jobActor, ts,
               script)

Finish(st, ts) == trimStore([st EXCEPT !.updatedAtMs = ts])

(* The document an updater returns for saving, and its result.             *)
Done(r, ts) ==
  [ok |-> TRUE, store |-> Finish(r.store, ts), nextId |-> r.nextId, result |-> r.result]

executeWorkforceAction(current, input, ts, id0, script) ==
  IF normalizeSeatId(input.seatId) = NONE THEN Failed(current, id0, "Unknown seat id")
  ELSE IF Trim(input.action) = <<>> THEN Failed(current, id0, "Action is required")
  ELSE Done(RunActionWithJobs(sanitizeStore(current, ts), input, input.action,
                              input.actor, ts, id0, script),
            ts)

(* the pending check of resolveWorkforceDecision left out                  *)
IsPendingUnchecked(decision) == TRUE

IsPending(decision) == decision.status = "pending"

MarkResolved(st, di, resolution, actor, ts) ==
  [st EXCEPT !.decisions[di] =
     [@ EXCEPT !.status = "resolved", !.resolution = resolution,
               !.resolvedBy = actor, !.resolvedAtMs = ts]]

(* the linked run left as it was when its decision is resolved             *)
ResolveRunUntouched(st, ri, runId, resolution, ts) == st

(* The linked run of a resolved decision: status, end time, summary and a  *)
(* decision.resolved frame; nothing when the run is no longer stored.      *)
ResolveRun(st, ri, runId, resolution, ts) ==
  IF ri = 0 THEN st
  ELSE appendReplay(
         [st EXCEPT !.runs[ri] =
            [@ EXCEPT !.status = IF resolution = "allow" THEN "ok" ELSE "blocked",
                      !.endedAtMs = ts,
                      !.summary = Summary("decision", resolution)]],
         runId, st.runs[ri].source, "decision.resolved", NoId)

(* no queue found for the decision                                         *)
DecisionQueueSeatNone(decision) == NONE

(* const queue = findQueue(store, decision.seatId)                         *)
DecisionQueueSeat(decision) == decision.seatId

(* The pending branch of resolveWorkforceDecision for decision number di.  *)
ResolvePending(st, di, decision, resolution, actor, ts, id0) ==
  [ok |-> TRUE,
   store |->
     Finish(
       decrementQueuePending(
         appendReceipt(
           MarkSeat(
             ResolveRun(MarkResolved(st, di, resolution, actor, ts),
                        IF decision.runId = NoId THEN 0
                        ELSE IndexOfRun(st, decision.runId),
                        decision.runId, resolution, ts),
             decision.seatId, IF resolution = "allow" THEN "idle" ELSE "blocked", ts),
           Receipt(id0, decision.runId, decision.decisionId, actor,
                   <<"decision", ".", "resolve">>, resolution)),
         DecisionQueueSeat(decision)),
       ts),
   nextId |-> id0 + 1,
   result |-> MarkResolved(st, di, resolution, actor, ts).decisions[di]]

ResolveAt(current, st, di, resolution, actor, ts, id0) ==
  IF di = 0 THEN Failed(current, id0, "Decision not found")
  ELSE IF ~IsPending(st.decisions[di])
  THEN [ok |-> TRUE, store |-> st, nextId |-> id0, result |-> st.decisions[di]]
  ELSE ResolvePending(st, di, st.decisions[di], resolution, actor, ts, id0)

resolveWorkforceDecision(current, decisionId, resolution, actor, ts, id0) ==
  ResolveAt(current, sanitizeStore(current, ts),
            IndexOfDecision(sanitizeStore(current, ts), decisionId),
            resolution, actor, ts, id0)

(* the frame without its reference                                         *)
ReplayRefNone(runId) == NoId

(* payloadRef: options.runId                                               *)
ReplayRef(runId) == runId

(* The run.replayed frame and the result of replayWorkforceRun; e is what  *)
(* executeActionInStore returned for the replayed action.                  *)

Replayed(e, runId, ts) ==
  [ok |-> TRUE,
   store |-> Finish(appendReplay(e.store, CurRun(e.store).runId, CurRun(e.store).source,
                                 "run.replayed", ReplayRef(runId)),
                    ts),
   nextId |-> e.nextId,
   result |-> [policy |-> e.policy.decision,
               reason |-> e.policy.reason,
               run |-> CurRun(e.store),
               decisionId |-> e.decisionId,
               receiptId |-> e.receiptId]]

ReplayAt(current, st, ri, runId, actor, ts, id0) ==
  IF ri = 0 THEN Failed(current, id0, "Run not found")
  ELSE Replayed(
         executeActionInStore(
           st,
           ActionInput(st.runs[ri].seatId, st.runs[ri].action, "workforce", actor, FALSE,
                       DefaultPayload),
           ts, id0),
         runId, ts)

replayWorkforceRun(current, runId, actor, ts, id0) ==
  ReplayAt(current, sanitizeStore(current, ts),
           IndexOfRun(sanitizeStore(current, ts), runId), runId, actor, ts, id0)

WRITEBACK_ACTION == <<"appfolio", ".", "writeback">>

recordAppfolioWritebackReceipt(current, actor, ts, id0) ==
  LET st == sanitizeStore(current, ts)
      receipt == Receipt(id0, NoId, NoId, actor, WRITEBACK_ACTION, "recorded")
  IN [ok |-> TRUE, store |-> Finish(appendReceipt(st, receipt), ts), nextId |-> id0 + 1,
      result |-> receipt]

addWorkforceSchedule(current, seatIdIn, intervalMsIn, actionIn, ts, id0) ==
  LET st == sanitizeStore(current, ts)
      seatId == normalizeSeatId(seatIdIn)
      intervalMs == IF intervalMsIn < MIN_INTERVAL_MS THEN MIN_INTERVAL_MS ELSE intervalMsIn
      schedule == [id |-> id0, seatId |-> seatId, enabled |-> TRUE,
                   intervalMs |-> intervalMs, maxConcurrentRuns |-> 1,
                   nextRunAtMs |-> ts + intervalMs, lastRunAtMs |-> 0,
                   action |-> IF Trim(actionIn) = <<>> THEN <<"scheduled", ":", seatId>>
                              ELSE Trim(actionIn)]
  IN IF seatId = NONE THEN Failed(current, id0, "Unknown seat id")
     ELSE [ok |-> TRUE,
           store |-> Finish([st EXCEPT !.schedules = Append(@, schedule)], ts),
           nextId |-> id0 + 1, result |-> schedule]

Drop(s, n) == IF n >= Len(s) THEN <<>> ELSE SubSeq(s, n + 1, Len(s))

Max(a, b) == IF a >= b THEN a ELSE b

QueueHasRoom(queue, schedule) == queue.pending < Max(1, schedule.maxConcurrentRuns)

(* the next run counted from the run that was due, not from the tick       *)
RearmFromDue(schedule, ts) ==
  [schedule EXCEPT !.nextRunAtMs = @ + schedule.intervalMs]

(* schedule.nextRunAtMs = ts + schedule.intervalMs                         *)
Rearm(schedule, ts) == [schedule EXCEPT !.nextRunAtMs = ts + schedule.intervalMs]

(* the due test left out                                                   *)
NotDueNever(schedule, ts) == FALSE

(* if (!schedule.nextRunAtMs || schedule.nextRunAtMs > ts) continue        *)
NotDue(schedule, ts) == schedule.nextRunAtMs = 0 \/ schedule.nextRunAtMs > ts

(* A triggered schedule: r is what the action and its jobs returned.       *)
(* t is [store, nextId, calls, triggered, scheduleIds]; scheduleIds keeps, *)
(* for each entry of triggered, the id of the schedule that triggered it.  *)
Triggered(t, i, schedule, r, ts) ==
  [store |-> [r.store EXCEPT !.schedules[i] =
                [Rearm(schedule, ts) EXCEPT !.lastRunAtMs = ts]],
   nextId |-> r.nextId,
   calls |-> t.calls + r.result.clientCalls,
   triggered |-> Append(t.triggered, r.result),
   scheduleIds |-> Append(t.scheduleIds, schedule.id)]

(* The body of the loop of tickWorkforceSchedules for schedule number i.   *)
TickSchedule(t, i, schedule, seatId, actor, ts, script) ==
  IF ~schedule.enabled \/ schedule.intervalMs = 0 THEN t
  ELSE IF NotDue(schedule, ts) THEN t
  ELSE IF seatId = NONE THEN t
  ELSE IF findQueue(t.store, seatId) # NONE
          /\ ~QueueHasRoom(t.store.queues[seatId], schedule)
  THEN [t EXCEPT !.store.schedules[i] = Rearm(schedule, ts)]
  ELSE Triggered(t, i, schedule,
                 RunActionWithJobs(t.store,
                                   ActionInput(seatId, schedule.action, "cron", actor,
                                               FALSE, DefaultPayload),
                                   schedule.action, actor, ts, t.nextId,
                                   Drop(script, t.calls)),
                 ts)

RECURSIVE TickLoop(_, _, _, _, _)
TickLoop(t, i, actor, ts, script) ==
  IF i > Len(t.store.schedules) THEN t
  ELSE TickLoop(TickSchedule(t, i, t.store.schedules[i],
                             normalizeSeatId(t.store.schedules[i].seatId),
                             actor, ts, script),
                i + 1, actor, ts, script)

Ticked(t, ts) ==
  [ok |-> TRUE, store |-> Finish(t.store, ts), nextId |-> t.nextId,
   result |-> [triggered |-> t.triggered, clientCalls |-> t.calls,
               scheduleIds |-> t.scheduleIds]]

tickWorkforceSchedules(current, actor, ts, id0, script) ==
  Ticked(TickLoop([store |-> sanitizeStore(current, ts), nextId |-> id0, calls |-> 0,
                   triggered |-> <<>>, scheduleIds |-> <<>>],
                  1, actor, ts, script),
         ts)

----------------------------------------------------------------------------
(* Status: the blocked runs that the status reports                        *)

(* latestOkByAction.get(`${seatId}:${action}`), 0 when there is none: the  *)
(* greatest startedAtMs of the runs of that seat and action with status ok *)
latestOkAt(st, seatId, action) ==
  LET oks == {st.runs[j].startedAtMs :
                j \in {k \in 1..Len(st.runs) : /\ st.runs[k].status = "ok"
                                               /\ st.runs[k].seatId = seatId
                                               /\ st.runs[k].action = action}}
  IN IF oks = {} THEN 0 ELSE CHOOSE m \in oks : \A o \in oks : o <= m

(* The positions in runs of the runs that unresolvedBlockedRuns returns.   *)
unresolvedBlockedRuns(st) ==
  {i \in 1..Len(st.runs) :
     /\ st.runs[i].status = "blocked"
     /\ \/ latestOkAt(st, st.runs[i].seatId, st.runs[i].action) = 0
        \/ latestOkAt(st, st.runs[i].seatId, st.runs[i].action) <= st.runs[i].startedAtMs}

(* summary.blocked of buildStatus                                          *)
SummaryBlocked(st) == Cardinality(unresolvedBlockedRuns(st))

(* The run of the clear-blocked-run step of collectNextSteps: the last of  *)
(* the unresolved blocked runs, 0 when the step is not offered.            *)
ClearBlockedRunStep(st) ==
  IF unresolvedBlockedRuns(st) = {} THEN 0
  ELSE CHOOSE i \in unresolvedBlockedRuns(st) : \A j \in unresolvedBlockedRuns(st) : j <= i

----------------------------------------------------------------------------
(* Requests explored                                                       *)

A_RETRO == <<"retro", ".", "start">>
A_COMMS == <<"appfolio", ".", "comms", ".", "broadcast">>
A_DEPLOY == <<"deploy", ".", "prod">>
A_QUEUE_DEPLOY == <<"queue", ".", "deploy", ".", "prod">>
A_QUEUE_DRAIN == <<"queue", ".", "drain">>
A_SECURITY == <<"security", ".", "block", ".", "ip">>
A_REPORT_BILL == <<"appfolio", ".", "report", ".", "run", ":", "bill_detail">>
A_WORKFLOW_TRIAGE == <<"appfolio", ".", "workflow", ".", "run", ":", "smart_bill_triage">>

ExecSeats == {"ops-lead", "queue-manager"}

ReceiptIds(st) == {st.receipts[i].receiptId : i \in 1..Len(st.receipts)}
RunIds(st) == {st.runs[i].runId : i \in 1..Len(st.runs)}
DecisionIds(st) == {st.decisions[i].decisionId : i \in 1..Len(st.decisions)}

(* An id beyond every id the calls explored can draw.                      *)
UnknownId == 1000 * MaxCalls

WithReceipt(id) == [DefaultPayload EXCEPT !.writebackReceiptId = id]

InvalidFrom ==
  [DefaultPayload EXCEPT
     !.reportFilters = [given |-> TRUE,
                        fields |-> [k \in {"occurred_on_from"} |-> Val("text", 0)]]]

RowA == Row("Vendor A", "Property 1", "100.00", "2026-02-10", "INV-1")
RowB == Row("Vendor B", "Property 1", "250.5", "2026-02-11", "INV-2")
RowBlank == Row("", "", "", "2026-02-10", "")

OkPage == Page(TRUE, 1, FALSE, <<RowB>>)

DupPage == Page(TRUE, 2, FALSE, <<RowA, RowA>>)
CleanPage == Page(TRUE, 2, FALSE, <<RowA, RowB>>)

ReportScripts == {<<OkPage>>, <<FailedPage>>}

WorkflowScripts == {<<DupPage, OkPage>>, <<CleanPage, FailedPage>>}

Request(seatId, action, requireWritebackReceipt, payload, script) ==
  [input |-> ActionInput(seatId, action, "workforce", "operator",
                         requireWritebackReceipt, payload),
   script |-> script]

ExecRequests(st) ==
  {Request(s, A_RETRO, FALSE, DefaultPayload, <<>>) : s \in ExecSeats \cup {"ui-operator"}}
  \cup {Request("queue-manager", A_COMMS, FALSE, DefaultPayload, <<>>)}
  \cup {Request("queue-manager", A_COMMS, TRUE, WithReceipt(id), <<>>) :
          id \in ReceiptIds(st) \cup {NoId}}
  \cup {Request("queue-manager", A_REPORT_BILL, FALSE, DefaultPayload, sc) :
          sc \in ReportScripts}
  \cup {Request("ops-lead", A_REPORT_BILL, FALSE, DefaultPayload, <<OkPage>>)}
  \cup {Request("queue-manager", A_REPORT_BILL, FALSE, InvalidFrom, <<OkPage>>)}
  \cup {Request("queue-manager", A_WORKFLOW_TRIAGE, FALSE, DefaultPayload, sc) :
          sc \in WorkflowScripts}
  \cup {Request("ops-lead", A_WORKFLOW_TRIAGE, FALSE, DefaultPayload, <<DupPage, OkPage>>)}

----------------------------------------------------------------------------
(* The state machine: one atomic step per public operation                 *)

Call(op, request, ok, result) ==
  [op |-> op, request |-> request, ok |-> ok, result |-> result]

NoCall == Call("none", NONE, TRUE, NONE)

Init ==
  /\ store = createDefaultStore(StartMs)
  /\ now = StartMs
  /\ nextId = 1
  /\ lastCall = NoCall
  /\ calls = 0
  /\ inflight = <<>>

CanStart == calls < MaxCalls

(* Applies the outcome r of an updater: updateWorkforceStore saves the     *)
(* returned document, or nothing when the updater threw.                   *)
Apply(op, request, r) ==
  /\ store' = IF r.ok THEN r.store ELSE store
  /\ nextId' = r.nextId
  /\ lastCall' = Call(op, request, r.ok, IF r.ok THEN r.result ELSE r.error)
  /\ calls' = calls + 1
  /\ UNCHANGED <<now, inflight>>

Execute ==
  /\ CanStart
  /\ \E q \in ExecRequests(store) :
       Apply("execute", q, executeWorkforceAction(store, q.input, now, nextId, q.script))

Resolve ==
  /\ CanStart
  /\ \E d \in DecisionIds(store) \cup {UnknownId}, resolution \in {"allow", "deny"} :
       /\ d = UnknownId => resolution = "allow"
       /\ Apply("resolve", [decisionId |-> d, resolution |-> resolution],
             resolveWorkforceDecision(store, d, resolution, "operator", now, nextId))

Replay ==
  /\ CanStart
  /\ \E r \in RunIds(store) \cup {UnknownId} :
       Apply("replay", [runId |-> r],
             replayWorkforceRun(store, r, "replay", now, nextId))

Writeback ==
  /\ CanStart
  /\ Apply("writeback", NONE,
           recordAppfolioWritebackReceipt(store, "workspace", now, nextId))

ScheduleRequests ==
  {[seatId |-> "ops-lead", action |-> A_RETRO],
   [seatId |-> "queue-manager", action |-> A_WORKFLOW_TRIAGE]}

AddSchedule ==
  /\ CanStart
  /\ \E q \in ScheduleRequests :
       Apply("schedule.add", q,
             addWorkforceSchedule(store, q.seatId, MIN_INTERVAL_MS, q.action, now, nextId))

TickScripts == {<<DupPage, OkPage>>}

Tick ==
  /\ CanStart
  /\ \E sc \in TickScripts :
       Apply("tick", [script |-> sc],
             tickWorkforceSchedules(store, "scheduler", now, nextId, sc))

(* An enabled schedule that is not due yet.                                *)
Waiting(st, ts) ==
  \E i \in 1..Len(st.schedules) :
    st.schedules[i].enabled /\ st.schedules[i].nextRunAtMs > ts

(* Time passes.  The clock decides nothing but which schedules are due, so *)
(* it advances only while a schedule is waiting and calls remain.          *)
Advance ==
  /\ CanStart
  /\ Waiting(store, now)
  /\ now < StartMs + MaxClock * TICK_MS
  /\ now' = now + TICK_MS
  /\ UNCHANGED <<store, nextId, lastCall, calls, inflight>>

Next ==
  \/ Execute
  \/ Resolve
  \/ Replay
  \/ Writeback
  \/ AddSchedule
  \/ Tick
  \/ Advance

Spec == Init /\ [][Next]_vars

----------------------------------------------------------------------------
(* The policy engine on its own: evaluatePolicy applied to every seat, to  *)
(* a set of actions, profiles, gate flags and receipt ids, in the stores   *)
(* that writebacks and plain actions lead to.                              *)

A_DEPLOY_PADDED == <<" ", "Deploy", ".", "Prod", " ">>

PolicyActions ==
  {A_DEPLOY, A_DEPLOY_PADDED, A_QUEUE_DEPLOY, A_COMMS, A_QUEUE_DRAIN, A_SECURITY, A_RETRO}

PolicyPayloads(st) ==
  {[DefaultPayload EXCEPT !.writebackReceiptId = id, !.policyProfileId = profile] :
     id \in ReceiptIds(st) \cup {NoId, UnknownId},
     profile \in POLICY_PROFILE_IDS \cup {NONE}}

(* A plain action on a supervised or an autonomous seat.                   *)
Prepare ==
  /\ CanStart
  /\ \E s \in ExecSeats :
       Apply("execute", Request(s, A_RETRO, FALSE, DefaultPayload, <<>>),
             executeWorkforceAction(
               store, ActionInput(s, A_RETRO, "workforce", "operator", FALSE,
                                  DefaultPayload),
               now, nextId, <<>>))

(* An evaluation changes nothing but the record of the last call: one     *)
(* that follows another evaluation leads to no state the first does not.   *)
Evaluate ==
  /\ lastCall.op # "policy"
  /\ \E seatId \in SeatIds, action \in PolicyActions, gate \in BOOLEAN,
        payload \in PolicyPayloads(store) :
       lastCall' = Call("policy",
                        [seatId |-> seatId, action |-> action,
                         requireWritebackReceipt |-> gate, payload |-> payload],
                        TRUE,
                        evaluatePolicy(seatId, Trim(action), gate, payload, store))
  /\ UNCHANGED <<store, now, nextId, calls, inflight>>

NextPolicy ==
  \/ Prepare
  \/ Writeback
  \/ Evaluate

SpecPolicy == Init /\ [][NextPolicy]_vars

----------------------------------------------------------------------------
(* Overlapping resolve calls.  updateWorkforceStore loads the document,    *)
(* runs the updater on what it loaded and saves what the updater returns,  *)
(* with no lock: a call is a load step and a later save step, and other    *)
(* calls may run between the two.                                          *)

Callers == {"operator-1", "operator-2"}

Idle == [phase |-> "idle"]

InitRace ==
  /\ store = createDefaultStore(StartMs)
  /\ now = StartMs
  /\ nextId = 1
  /\ lastCall = NoCall
  /\ calls = 0
  /\ inflight = [c \in Callers |-> Idle]

(* loadWorkforceStore of a resolve call                                    *)
LoadResolve ==
  /\ CanStart
  /\ \E c \in Callers, d \in DecisionIds(store), resolution \in {"allow", "deny"} :
       /\ inflight[c].phase # "loaded"
       /\ inflight' = [inflight EXCEPT ![c] =
                         [phase |-> "loaded", decisionId |-> d,
                          resolution |-> resolution, snapshot |-> store]]
  /\ calls' = calls + 1
  /\ UNCHANGED <<store, now, nextId, lastCall>>

(* The answer of a finished call and the document it saved.                *)
Saved(c, call, r) ==
  /\ store' = IF r.ok THEN r.store ELSE store
  /\ nextId' = r.nextId
  /\ lastCall' = Call("resolve",
                      [decisionId |-> call.decisionId, resolution |-> call.resolution],
                      r.ok, IF r.ok THEN r.result ELSE r.error)
  /\ inflight' = [inflight EXCEPT ![c] =
                    [phase |-> "done", decisionId |-> call.decisionId,
                     resolution |-> call.resolution, ok |-> r.ok,
                     result |-> IF r.ok THEN r.result ELSE r.error]]

(* the updater and saveWorkforceStore of a resolve call                    *)
SaveResolve ==
  /\ \E c \in Callers :
       /\ inflight[c].phase = "loaded"
       /\ Saved(c, inflight[c],
                resolveWorkforceDecision(inflight[c].snapshot, inflight[c].decisionId,
                                         inflight[c].resolution, c, now, nextId))
  /\ UNCHANGED <<now, calls>>

(* An action that escalates, as one step.                                  *)
Escalate ==
  /\ CanStart
  /\ \E r \in {executeWorkforceAction(
                  store, ActionInput("ops-lead", A_RETRO, "workforce", "operator", FALSE,
                                     DefaultPayload),
                  now, nextId, <<>>)} :
       /\ store' = r.store
       /\ nextId' = r.nextId
       /\ lastCall' = Call("execute", NONE, r.ok, r.result)
  /\ calls' = calls + 1
  /\ UNCHANGED <<now, inflight>>

(* Time passes between the steps of overlapping calls.                     *)
Tock ==
  /\ CanStart
  /\ now < StartMs + MaxClock * TICK_MS
  /\ now' = now + TICK_MS
  /\ UNCHANGED <<store, nextId, lastCall, calls, inflight>>

NextRace ==
  \/ Escalate
  \/ LoadResolve
  \/ SaveResolve
  \/ Tock

SpecRace == InitRace /\ [][NextRace]_vars

----------------------------------------------------------------------------
(* Report runs on their own: a report-preset action on an autonomous seat, *)
(* with the pagination options of the caller and the pages that the        *)
(* server serves.                                                          *)

MaxReportRuns == 1

(* n pages of count rows each, every one naming a next page                *)
MorePages(n, count) == [i \in 1..n |-> Page(TRUE, count, TRUE, <<>>)]

LastPage(count) == Page(TRUE, count, FALSE, <<>>)

(* A page whose row count is not a number.                                 *)
UncountedPage == Page(TRUE, -1, TRUE, <<>>)

ServerScripts ==
  {<<FailedPage>>,
   <<ErrorPage("appfolio_reports_http_500")>>,
   <<LastPage(4)>>,
   MorePages(2, 1) \o <<LastPage(1)>>,
   MorePages(1, 2) \o <<LastPage(1)>>,
   MorePages(1, 1) \o <<FailedPage>>,
   MorePages(MAX_WORKFORCE_APPFOLIO_PAGES + 2, 1),
   MorePages(4, 10000),
   <<UncountedPage, LastPage(1)>>}

PaginationOf(autoPaginate, maxPages, maxRows) ==
  [given |-> TRUE, autoPaginate |-> autoPaginate, maxPages |-> maxPages,
   maxRows |-> maxRows]

Paginations ==
  {DefaultPayload.pagination,
   PaginationOf(TRUE, 0, 0),
   PaginationOf(TRUE, 2, 3),
   PaginationOf(TRUE, 3, 15000),
   PaginationOf(TRUE, 25, 200001),
   PaginationOf(FALSE, 3, 15000)}

ReportPresets == {"bill_detail", "rent_roll", "work_order"}

ReportRequests ==
  {Request("queue-manager", ReportJobAction(p), FALSE,
           [DefaultPayload EXCEPT !.pagination = pg], sc) :
     p \in ReportPresets, pg \in Paginations, sc \in ServerScripts}

ReportRun ==
  /\ calls < MaxReportRuns
  /\ \E q \in ReportRequests :
       Apply("execute", q, executeWorkforceAction(store, q.input, now, nextId, q.script))

NextReport == ReportRun

SpecReport == Init /\ [][NextReport]_vars

----------------------------------------------------------------------------
(* Overlapping calls of any kind.  Every public operation, the reads       *)
(* included, goes through updateWorkforceStore: it loads the document,     *)
(* runs its updater on what it loaded and saves what the updater returns.  *)
(* calls counts the load and save events.                                  *)

MaxOverlapEvents == 6

(* ensureStore on an existing document: sanitize, stamp, save.             *)
ensureStore(current, ts, id0) ==
  [ok |-> TRUE,
   store |-> [sanitizeStore(current, ts) EXCEPT !.updatedAtMs = ts],
   nextId |-> id0,
   result |-> [sanitizeStore(current, ts) EXCEPT !.updatedAtMs = ts]]

Reverse(s) == [i \in 1..Len(s) |-> s[Len(s) + 1 - i]]

(* listWorkforceRuns without a filter: the runs, newest first.             *)
listWorkforceRuns(current, ts, id0) ==
  [ensureStore(current, ts, id0) EXCEPT
     !.result = [updatedAtMs |-> @.updatedAtMs, runs |-> Reverse(@.runs)]]

ReadOps == {"runs"}

MutationOps == {"execute", "schedule.add", "tick"}

OverlapCalls ==
  {[op |-> "execute",
    request |-> Request("ops-lead", A_RETRO, FALSE, DefaultPayload, <<>>)],
   [op |-> "schedule.add", request |-> [seatId |-> "ops-lead", action |-> A_RETRO]],
   [op |-> "tick", request |-> NONE],
   [op |-> "runs", request |-> NONE]}

(* the updater run on the document as it is at the time of the save        *)
UpdaterInputCurrent(snapshot, current) == current

(* const { store } = await loadWorkforceStore(storePath); updater(store)   *)
UpdaterInput(snapshot, current) == snapshot

(* The updater of a call, applied to the document it is given.             *)
Updater(call, current, ts, id0) ==
  CASE call.op = "execute" ->
         executeWorkforceAction(current, call.request.input, ts, id0, call.request.script)
    [] call.op = "schedule.add" ->
         addWorkforceSchedule(current, call.request.seatId, MIN_INTERVAL_MS,
                              call.request.action, ts, id0)
    [] call.op = "tick" ->
         tickWorkforceSchedules(current, "scheduler", ts, id0, <<>>)
    [] OTHER -> listWorkforceRuns(current, ts, id0)

(* loadWorkforceStore of a call                                            *)
LoadCall ==
  /\ calls < MaxOverlapEvents
  /\ \E c \in Callers, call \in OverlapCalls :
       /\ inflight[c].phase # "loaded"
       /\ inflight' = [inflight EXCEPT ![c] =
                         [phase |-> "loaded", op |-> call.op, request |-> call.request,
                          snapshot |-> store, loadedAt |-> calls + 1]]
  /\ calls' = calls + 1
  /\ UNCHANGED <<store, now, nextId, lastCall>>

(* What a finished call leaves: the document saved and the answer.         *)
SavedCall(c, call, r) ==
  /\ store' = IF r.ok THEN r.store ELSE store
  /\ nextId' = r.nextId
  /\ lastCall' = Call(call.op, call.request, r.ok, IF r.ok THEN r.result ELSE r.error)
  /\ inflight' = [inflight EXCEPT ![c] =
                    [phase |-> "done", op |-> call.op, request |-> call.request,
                     snapshot |-> call.snapshot, loadedAt |-> call.loadedAt,
                     savedAt |-> calls + 1, ok |-> r.ok,
                     saved |-> IF r.ok THEN r.store ELSE store]]

(* the updater and saveWorkforceStore of a call                            *)
SaveCall ==
  /\ \E c \in Callers :
       /\ inflight[c].phase = "loaded"
       /\ SavedCall(c, inflight[c],
                    Updater(inflight[c], UpdaterInput(inflight[c].snapshot, store),
                            now, nextId))
  /\ calls' = calls + 1
  /\ UNCHANGED now

(* Time passes while a schedule is waiting.                                *)
OverlapTock ==
  /\ calls < MaxOverlapEvents
  /\ Waiting(store, now)
  /\ now < StartMs + MaxClock * TICK_MS
  /\ now' = now + TICK_MS
  /\ UNCHANGED <<store, nextId, lastCall, calls, inflight>>

NextOverlap ==
  \/ LoadCall
  \/ SaveCall
  \/ OverlapTock

SpecOverlap == InitRace /\ [][NextOverlap]_vars

----------------------------------------------------------------------------
(* The scheduler: ticks at any distance from one another                   *)

MaxTickCalls == 4
MaxTickPasses == 4

(* The clock advances by half the shortest interval a schedule can have,   *)
(* so two ticks can be closer than one interval.                           *)
HALF_INTERVAL_MS == MIN_INTERVAL_MS \div 2

TickIntervals == {MIN_INTERVAL_MS, 2 * MIN_INTERVAL_MS}

TickExecRequests ==
  {Request("ops-lead", A_COMMS, TRUE, WithReceipt(NoId), <<>>)}

TickCanStart == calls < MaxTickCalls

TickAddSchedule ==
  /\ TickCanStart
  /\ \E intervalMs \in TickIntervals :
       Apply("schedule.add", [seatId |-> "ops-lead", action |-> A_RETRO],
             addWorkforceSchedule(store, "ops-lead", intervalMs, A_RETRO, now, nextId))

TickNow ==
  /\ TickCanStart
  /\ Apply("tick", [script |-> <<>>],
           tickWorkforceSchedules(store, "scheduler", now, nextId, <<>>))

TickExecute ==
  /\ TickCanStart
  /\ \E q \in TickExecRequests :
       Apply("execute", q, executeWorkforceAction(store, q.input, now, nextId, q.script))

TickResolve ==
  /\ TickCanStart
  /\ \E d \in DecisionIds(store), resolution \in {"allow", "deny"} :
       Apply("resolve", [decisionId |-> d, resolution |-> resolution],
             resolveWorkforceDecision(store, d, resolution, "operator", now, nextId))

TickPass ==
  /\ TickCanStart
  /\ Waiting(store, now)
  /\ now < StartMs + MaxTickPasses * HALF_INTERVAL_MS
  /\ now' = now + HALF_INTERVAL_MS
  /\ UNCHANGED <<store, nextId, lastCall, calls, inflight>>

NextTick ==
  \/ TickAddSchedule
  \/ TickNow
  \/ TickExecute
  \/ TickResolve
  \/ TickPass

SpecTick == Init /\ [][NextTick]_vars

----------------------------------------------------------------------------
(* Calls with structural errors, next to calls that fill the store         *)

A_BLANK == <<" ", " ">>

BadExecRequests ==
  {Request("no-such-seat", A_RETRO, FALSE, DefaultPayload, <<>>),
   Request("ops-lead", <<>>, FALSE, DefaultPayload, <<>>),
   Request("ops-lead", A_BLANK, FALSE, DefaultPayload, <<>>)}

BadExecute ==
  /\ CanStart
  /\ \E q \in BadExecRequests :
       Apply("execute", q, executeWorkforceAction(store, q.input, now, nextId, q.script))

BadResolve ==
  /\ CanStart
  /\ \E resolution \in {"allow", "deny"} :
       Apply("resolve", [decisionId |-> UnknownId, resolution |-> resolution],
             resolveWorkforceDecision(store, UnknownId, resolution, "operator", now, nextId))

BadReplay ==
  /\ CanStart
  /\ Apply("replay", [runId |-> UnknownId],
           replayWorkforceRun(store, UnknownId, "replay", now, nextId))

BadAddSchedule ==
  /\ CanStart
  /\ Apply("schedule.add", [seatId |-> "no-such-seat", action |-> A_RETRO],
           addWorkforceSchedule(store, "no-such-seat", MIN_INTERVAL_MS, A_RETRO, now, nextId))

NextStructural ==
  \/ Prepare
  \/ AddSchedule
  \/ Advance
  \/ BadExecute
  \/ BadResolve
  \/ BadReplay
  \/ BadAddSchedule

SpecStructural == Init /\ [][NextStructural]_vars

----------------------------------------------------------------------------
(* The gateway: RPC handlers in front of the service                       *)
(* A handler validates the params against the schema of its method, calls  *)
(* the service operation, broadcasts and responds.  Here inflight holds    *)
(* the messages that the handler of the last request sent.                 *)

MaxRpcCalls == 2

(* A JSON value of a params object: its type and, per field, its content.  *)
Json(type, val) == [type |-> type, val |-> val]

(* Type.String({ minLength: 1 }); empty is the field's empty string.       *)
NonEmptyString(x, empty) == x.type = "string" /\ x.val # empty

(* every non-string value counted as a string                              *)
validateWorkforceActionParamsLoose(p) == ~p.extra

validateWorkforceActionParams(p) ==
  /\ NonEmptyString(p.seatId, "")
  /\ NonEmptyString(p.action, <<>>)
  /\ ~p.extra

validateWorkforceDecisionResolveParams(p) ==
  /\ NonEmptyString(p.decisionId, NoId)
  /\ p.resolution.type = "string"
  /\ p.resolution.val \in {"allow", "deny"}
  /\ ~p.extra

validateWorkforceReplayParams(p) ==
  /\ NonEmptyString(p.runId, NoId)
  /\ ~p.extra

validateWorkforceScheduleAddParams(p) ==
  /\ NonEmptyString(p.seatId, "")
  /\ NonEmptyString(p.name, "")
  /\ p.intervalMs.type = "number"
  /\ p.intervalMs.val >= MIN_INTERVAL_MS
  /\ NonEmptyString(p.action, <<>>)
  /\ ~p.extra

Message(kind, event, ok, code) == [kind |-> kind, event |-> event, ok |-> ok, code |-> code]

Respond(ok, code) == Message("respond", NONE, ok, code)

Broadcast(event) == Message("broadcast", event, TRUE, NONE)

(* What a handler did: whether it called the service, the service's        *)
(* outcome and the messages sent.                                          *)
Handled(invoked, r, messages) == [invoked |-> invoked, r |-> r, messages |-> messages]

(* respond(false, undefined, errorShape(ErrorCodes.INVALID_REQUEST, ...))   *)
Rejected(current, id0) ==
  Handled(FALSE, Failed(current, id0, "INVALID_REQUEST"), <<Respond(FALSE, "INVALID_REQUEST")>>)

(* The try block of a handler: the broadcasts and the response after the   *)
(* service returned r, or the response of the catch clause.                *)
Served(r, events) ==
  Handled(TRUE, r,
          IF r.ok THEN [k \in 1..Len(events) |-> Broadcast(events[k])] \o <<Respond(TRUE, NONE)>>
          ELSE <<Respond(FALSE, "UNAVAILABLE")>>)

ActionEvents(r) ==
  IF r.ok /\ r.result.decisionId # NoId
  THEN <<"workforce.updated", "workforce.decision.requested">>
  ELSE <<"workforce.updated">>

HandleActionExecute(p, current, ts, id0) ==
  IF ~validateWorkforceActionParams(p) THEN Rejected(current, id0)
  ELSE Served(executeWorkforceAction(current,
                                     ActionInput(p.seatId.val, p.action.val, "workforce",
                                                 "workforce", FALSE, DefaultPayload),
                                     ts, id0, <<>>),
              ActionEvents(executeWorkforceAction(current,
                                     ActionInput(p.seatId.val, p.action.val, "workforce",
                                                 "workforce", FALSE, DefaultPayload),
                                     ts, id0, <<>>)))

HandleDecisionResolve(p, current, ts, id0) ==
  IF ~validateWorkforceDecisionResolveParams(p) THEN Rejected(current, id0)
  ELSE Served(resolveWorkforceDecision(current, p.decisionId.val, p.resolution.val,
                                       "operator", ts, id0),
              <<"workforce.updated", "workforce.decision.resolved">>)

HandleRunReplay(p, current, ts, id0) ==
  IF ~validateWorkforceReplayParams(p) THEN Rejected(current, id0)
  ELSE Served(replayWorkforceRun(current, p.runId.val, "replay", ts, id0),
              <<"workforce.updated">>)

HandleScheduleAdd(p, current, ts, id0) ==
  IF ~validateWorkforceScheduleAddParams(p) THEN Rejected(current, id0)
  ELSE Served(addWorkforceSchedule(current, p.seatId.val, p.intervalMs.val, p.action.val,
                                   ts, id0),
              <<"workforce.updated">>)

workforceHandlers(method, p, current, ts, id0) ==
  CASE method = "workforce.action.execute" -> HandleActionExecute(p, current, ts, id0)
    [] method = "workforce.decision.resolve" -> HandleDecisionResolve(p, current, ts, id0)
    [] method = "workforce.run.replay" -> HandleRunReplay(p, current, ts, id0)
    [] method = "workforce.schedule.add" -> HandleScheduleAdd(p, current, ts, id0)

(* The params explored: well-formed ones, and ones with a missing field, a *)
(* field of the wrong type, an empty string, a value out of range or an    *)
(* additional property.                                                    *)
ActionParams ==
  {[seatId |-> Json("string", s), action |-> Json("string", A_RETRO), extra |-> FALSE] :
     s \in {"ops-lead", "queue-manager", "no-such-seat", ""}}
  \cup {[seatId |-> Json(t, ""), action |-> Json("string", A_RETRO), extra |-> FALSE] :
          t \in {"undefined", "number"}}
  \cup {[seatId |-> Json("string", "ops-lead"), action |-> a, extra |-> FALSE] :
          a \in {Json("string", <<>>), Json("string", A_BLANK), Json("undefined", <<>>)}}
  \cup {[seatId |-> Json("string", "ops-lead"), action |-> Json("string", A_RETRO),
         extra |-> TRUE]}

ResolveParams(st) ==
  {[decisionId |-> Json("string", d), resolution |-> Json("string", r), extra |-> FALSE] :
     d \in DecisionIds(st) \cup {UnknownId}, r \in {"allow", "deny", "later"}}
  \cup {[decisionId |-> Json("string", NoId), resolution |-> Json("string", "allow"),
         extra |-> FALSE],
        [decisionId |-> Json("undefined", NoId), resolution |-> Json("string", "allow"),
         extra |-> FALSE],
        [decisionId |-> Json("string", UnknownId), resolution |-> Json("undefined", ""),
         extra |-> FALSE]}

ReplayParams(st) ==
  {[runId |-> Json("string", r), extra |-> FALSE] : r \in RunIds(st) \cup {UnknownId, NoId}}
  \cup {[runId |-> Json("undefined", NoId), extra |-> FALSE]}

ScheduleAddParams ==
  {[seatId |-> Json("string", s), name |-> Json("string", n), intervalMs |-> i,
    action |-> Json("string", A_RETRO), extra |-> FALSE] :
     s \in {"ops-lead", ""}, n \in {"nightly", ""},
     i \in {Json("number", MIN_INTERVAL_MS), Json("number", MIN_INTERVAL_MS - 1),
            Json("string", 0)}}

RpcParams(method, st) ==
  CASE method = "workforce.action.execute" -> ActionParams
    [] method = "workforce.decision.resolve" -> ResolveParams(st)
    [] method = "workforce.run.replay" -> ReplayParams(st)
    [] method = "workforce.schedule.add" -> ScheduleAddParams

RpcMethods ==
  {"workforce.action.execute", "workforce.decision.resolve", "workforce.run.replay",
   "workforce.schedule.add"}

(* One request: h is what its handler did.                                 *)
RpcDone(method, p, h) ==
  /\ store' = IF h.invoked /\ h.r.ok THEN h.r.store ELSE store
  /\ nextId' = h.r.nextId
  /\ lastCall' = Call(method, [params |-> p, invoked |-> h.invoked], h.r.ok,
                      IF h.r.ok THEN h.r.result ELSE h.r.error)
  /\ inflight' = h.messages
  /\ calls' = calls + 1
  /\ UNCHANGED now

Rpc ==
  /\ calls < MaxRpcCalls
  /\ \E method \in RpcMethods :
       \E p \in RpcParams(method, store) :
         RpcDone(method, p, workforceHandlers(method, p, store, now, nextId))

NextGateway == Rpc

SpecGateway == Init /\ [][NextGateway]_vars

----------------------------------------------------------------------------
(* Workflow runs over bill_detail rows of every kind                       *)

MaxWorkflowRuns == 1
MaxRowsPerPage == 3

RowA2 == Row("Vendor A", "Property 2", "$100.00", "2026-02-10", "INV-1")
RowNoVendor == Row("", "Property 1", "250.5", "2026-02-11", "INV-2")

BillRows == {RowA, RowA2, RowBlank, RowNoVendor}

RowSeqs == UNION {[1..n -> BillRows] : n \in 0..MaxRowsPerPage}

(* The second response, when the workflow asks for one, is served after    *)
(* the bill_detail page.                                                   *)
BillDetailScripts ==
  {<<Page(TRUE, Len(rows), FALSE, rows)>> : rows \in RowSeqs} \cup {<<FailedPage>>}
    \cup {<<Page(TRUE, 1, FALSE, <<r>>), p2>> :
            r \in BillRows, p2 \in {OkPage, FailedPage, DupPage, CleanPage}}

WorkflowRun ==
  /\ calls < MaxWorkflowRuns
  /\ \E sc \in BillDetailScripts :
       Apply("execute", Request("queue-manager", A_WORKFLOW_TRIAGE, FALSE, DefaultPayload, sc),
             executeWorkforceAction(
               store,
               ActionInput("queue-manager", A_WORKFLOW_TRIAGE, "workforce", "operator",
                           FALSE, DefaultPayload),
               now, nextId, sc))

NextWorkflow == WorkflowRun

SpecWorkflow == Init /\ [][NextWorkflow]_vars

----------------------------------------------------------------------------
(* Properties of the ledger                                                *)

RunsOf(st) == {st.runs[i] : i \in 1..Len(st.runs)}

ReceiptsOf(st, runId) == {i \in 1..Len(st.receipts) : st.receipts[i].runId = runId}

(* The receipts that the execution of the run's own action wrote.          *)
OwnReceiptsOf(st, run) ==
  {i \in ReceiptsOf(st, run.runId) :
     st.receipts[i].action = run.action /\ st.receipts[i].outcome = run.policyDecision}

FramesOf(st, runId) == SelectSeq(st.replayframes, LAMBDA f : f.runId = runId)

FrameRunIds(st) == {st.replayframes[i].runId : i \in 1..Len(st.replayframes)}

ReceiptsUntrimmed == Len(store.receipts) < MAX_STORED_RECEIPTS

FramesUntrimmed == Len(store.replayframes) < MAX_STORED_REPLAYFRAMES

(* C1, as stated: every run in runs has exactly one receipt whose runId is *)
(* the run's.                                                              *)
C1_ExactlyOneReceipt ==
  \A run \in RunsOf(store) : Cardinality(ReceiptsOf(store, run.runId)) = 1

(* C1, amended: while no receipt has been trimmed from the history, every  *)
(* run in runs has at least one receipt with its runId, and exactly one of *)
(* them is the receipt of the action's own execution (it carries the run's *)
(* action and the run's policy decision as outcome).                       *)
C1_ReceiptPerRun ==
  ReceiptsUntrimmed =>
    \A run \in RunsOf(store) :
      /\ Cardinality(ReceiptsOf(store, run.runId)) >= 1
      /\ Cardinality(OwnReceiptsOf(store, run)) = 1

(* A run with a job receipt or a resolution receipt next to its own.       *)
C1_Witness ==
  /\ ReceiptsUntrimmed
  /\ \E run \in RunsOf(store) : Cardinality(ReceiptsOf(store, run.runId)) >= 2

(* C2, as stated: the frames stored for a run carry seq 1, 2, ..., n in    *)
(* insertion order.                                                        *)
C2_SeqFromOne ==
  \A r \in FrameRunIds(store) :
    \A k \in 1..Len(FramesOf(store, r)) : FramesOf(store, r)[k].seq = k

(* C2, amended: the frames stored for a run carry, in insertion order,     *)
(* consecutive seq values with no gap, repeat or reordering, the last one  *)
(* being the run's counter; they start at 1 as long as no frame has been   *)
(* trimmed from the history.                                               *)
C2_SeqContiguous ==
  \A r \in FrameRunIds(store) :
    /\ \A k \in 1..(Len(FramesOf(store, r)) - 1) :
         FramesOf(store, r)[k + 1].seq = FramesOf(store, r)[k].seq + 1
    /\ FramesOf(store, r)[Len(FramesOf(store, r))].seq = SeqOf(store, r)
    /\ FramesUntrimmed => FramesOf(store, r)[1].seq = 1

(* A run that lost its first frames to trimming and kept at least two.     *)
C2_Witness ==
  \E r \in FrameRunIds(store) :
    /\ Len(FramesOf(store, r)) >= 2
    /\ FramesOf(store, r)[1].seq > 1

DecisionsOf(st) == {st.decisions[i] : i \in 1..Len(st.decisions)}

(* The step is a call of operation op.                                     *)
Called(op) == calls' = calls + 1 /\ lastCall'.op = op

(* C4: a resolveDecision call for a decision that is already resolved      *)
(* returns the card as it is stored, with its original resolution,         *)
(* resolvedBy and resolvedAtMs, and leaves the runs, the seats, the        *)
(* queues, the receipts, the replay frames and the decisions unchanged.    *)
C4_ResolveResolvedIsNoOp ==
  [][(/\ Called("resolve")
      /\ \E d \in DecisionsOf(store) :
           d.decisionId = lastCall'.request.decisionId /\ d.status = "resolved")
     => /\ lastCall'.ok
        /\ lastCall'.result \in DecisionsOf(store)
        /\ lastCall'.result.decisionId = lastCall'.request.decisionId
        /\ store'.runs = store.runs
        /\ store'.seats = store.seats
        /\ store'.queues = store.queues
        /\ store'.receipts = store.receipts
        /\ store'.replayframes = store.replayframes
        /\ store'.decisions = store.decisions]_vars

(* A repeated resolve with the other resolution got the original card.     *)
C4_Witness ==
  /\ lastCall.op = "resolve"
  /\ lastCall.ok
  /\ lastCall.result.status = "resolved"
  /\ lastCall.result.resolution # lastCall.request.resolution

IsReportAction(action) == parseWorkforceAppfolioReportPresetId(action) # NONE

IsWorkflowAction(action) == parseWorkforceAppfolioWorkflowId(action) # NONE

LinkedRuns(st, decision) == {run \in RunsOf(st) : run.runId = decision.runId}

(* C5, as stated: every decision card is linked to a run whose             *)
(* policyDecision is escalate (of the cards whose run is still stored).    *)
C5_CardsOnlyOnEscalate ==
  \A d \in DecisionsOf(store) :
    \A run \in LinkedRuns(store, d) : run.policyDecision = "escalate"

(* C5, amended: every decision card whose run is still stored is either    *)
(* the approval card of a run whose policyDecision is escalate, or the     *)
(* Smart Bill findings card (seat ui-operator) of a workflow run whose     *)
(* policyDecision is allow; no card is linked to a blocked run.            *)
C5_CardsOnEscalateOrFindings ==
  \A d \in DecisionsOf(store) :
    \A run \in LinkedRuns(store, d) :
      \/ /\ d.title = "Approval required"
         /\ d.seatId = run.seatId
         /\ run.policyDecision = "escalate"
      \/ /\ d.title = "Smart Bill review findings"
         /\ d.seatId = "ui-operator"
         /\ IsWorkflowAction(run.action)
         /\ run.policyDecision = "allow"

(* Both kinds of card are stored with their runs.                          *)
C5_Witness ==
  /\ \E d \in DecisionsOf(store) :
       \E run \in LinkedRuns(store, d) : run.policyDecision = "escalate"
  /\ \E d \in DecisionsOf(store) :
       \E run \in LinkedRuns(store, d) : run.policyDecision = "allow"

Terminal(status) == status \in {"ok", "error", "blocked"}

(* C6: no step changes the identity (runId, seatId, action, source) of a   *)
(* stored run, and no step changes the status, summary or artifacts of a   *)
(* run that the previous operation left with a terminal status.            *)
C6_TerminalRunsFrozen ==
  [][\A old \in RunsOf(store) :
       \A new \in RunsOf(store') :
         new.runId = old.runId =>
           /\ new.seatId = old.seatId
           /\ new.action = old.action
           /\ new.source = old.source
           /\ Terminal(old.status) =>
                /\ new.status = old.status
                /\ new.summary = old.summary
                /\ new.artifacts = old.artifacts]_vars

(* The action results of the last call: the result of an executed action,  *)
(* or the results of the schedules a tick triggered.                       *)
ActionResults ==
  IF lastCall.op = "execute" /\ lastCall.ok THEN {lastCall.result}
  ELSE IF lastCall.op = "tick"
       THEN {lastCall.result.triggered[k] : k \in 1..Len(lastCall.result.triggered)}
       ELSE {}

ValidationFailed(res) == res.report.validationErrors # <<>>

(* C9: a report-preset or workflow action whose policy outcome is not      *)
(* allow makes no ReportClient request, and a report-preset action whose   *)
(* merged payload fails validation makes none either.                      *)
C9_NoClientCalls ==
  \A res \in ActionResults :
    /\ (IsReportAction(res.run.action) \/ IsWorkflowAction(res.run.action))
         /\ res.policy # "allow"
       => res.clientCalls = 0
    /\ IsReportAction(res.run.action) /\ ValidationFailed(res) => res.clientCalls = 0

(* A report action that escalated, and the scripted server had a page.     *)
C9_Witness ==
  /\ lastCall.op = "execute"
  /\ lastCall.ok
  /\ IsReportAction(lastCall.result.run.action)
  /\ lastCall.result.policy = "escalate"
  /\ lastCall.request.script # <<>>
  /\ lastCall.result.clientCalls = 0

(* C10, as stated: a report-preset action whose policy outcome is not      *)
(* allow, or whose payload fails validation, ends with run status error.   *)
C10_ReportRunEndsInError ==
  \A res \in ActionResults :
    IsReportAction(res.run.action) /\ (res.policy # "allow" \/ ValidationFailed(res))
    => res.run.status = "error"

(* C10, amended: a report-preset action whose policy outcome is allow and  *)
(* whose payload fails validation ends with run status error; when the     *)
(* policy outcome is not allow the run keeps the status of that outcome    *)
(* (blocked or escalated) and only the report result carries the error     *)
(* appfolio_report_policy_not_allow.                                       *)
C10_ReportRunStatus ==
  \A res \in ActionResults :
    IsReportAction(res.run.action) =>
      /\ res.policy = "allow" /\ ValidationFailed(res)
         => /\ res.run.status = "error"
            /\ res.run.error = "appfolio_report_validation_failed"
      /\ res.policy # "allow"
         => /\ res.run.status = RunStatusFor(res.policy)
            /\ res.run.error = NONE
            /\ res.report.error = "appfolio_report_policy_not_allow"

(* An allowed report action with an invalid date filter.                   *)
C10_Witness ==
  /\ lastCall.op = "execute"
  /\ lastCall.ok
  /\ IsReportAction(lastCall.result.run.action)
  /\ lastCall.result.policy = "allow"
  /\ ValidationFailed(lastCall.result)
  /\ lastCall.result.run.status = "error"

(* The resolve calls that have returned to their callers.                  *)
Answered(c, d) ==
  /\ inflight[c].phase = "done"
  /\ inflight[c].ok
  /\ inflight[c].decisionId = d

(* C3: of two resolve calls for the same decision at most one performs the *)
(* pending -> resolved transition (the card it returns is resolved by that *)
(* caller), and the two callers are told the same resolution.              *)
C3_ResolvedExactlyOnce ==
  \A c1 \in Callers, c2 \in Callers :
    \A d \in DecisionIds(store) :
      c1 # c2 /\ Answered(c1, d) /\ Answered(c2, d) =>
        /\ inflight[c1].result.resolution = inflight[c2].result.resolution
        /\ ~(inflight[c1].result.resolvedBy = c1 /\ inflight[c2].result.resolvedBy = c2)

IsCommsAction(action) ==
  StartsWith(ToLowerCase(Trim(action)), <<"appfolio", ".", "comms", ".">>)

WritebackReceiptIds(st) ==
  {st.receipts[i].receiptId :
     i \in {j \in 1..Len(st.receipts) : st.receipts[j].action = WRITEBACK_ACTION}}

(* C7: while the workspace enforces writeback, an appfolio.comms. action   *)
(* gets allow or escalate, on any seat, only if payload.writebackReceiptId *)
(* is the id of a receipt recorded by the writeback operation.             *)
C7_CommsNeedWritebackReceipt ==
  (/\ lastCall.op = "policy"
   /\ store.workspace.appfolioWritebackEnforced
   /\ IsCommsAction(lastCall.request.action)
   /\ lastCall.result.decision \in {"allow", "escalate"})
  => lastCall.request.payload.writebackReceiptId \in WritebackReceiptIds(store)

NamesProdDeploy(action) ==
  Includes(ToLowerCase(Trim(action)), <<"deploy", ".", "prod">>)

(* C8: an action whose name contains deploy.prod never gets allow, for any *)
(* seat, payload (explicit policy profile included) and store; its outcome *)
(* is escalate or block.                                                   *)
C8_ProdDeployNeverAllowed ==
  (/\ lastCall.op = "policy"
   /\ NamesProdDeploy(lastCall.request.action))
  => lastCall.result.decision \in {"escalate", "block"}

(* A prod deploy on an autonomous seat under an explicit autonomous-ops    *)
(* profile reaches the deploy.prod rule.                                   *)
C8_Witness ==
  /\ lastCall.op = "policy"
  /\ NamesProdDeploy(lastCall.request.action)
  /\ WORKFORCE_ROSTER[lastCall.request.seatId].autonomyMode = "autonomous"
  /\ lastCall.request.payload.policyProfileId = "autonomous-ops"
  /\ lastCall.result.reason = "prod_deploy_requires_approval"

----------------------------------------------------------------------------
(* Properties of report runs                                               *)

(* The last call executed a report-preset action; its request and result.  *)
ReportCalled ==
  /\ lastCall.op = "execute"
  /\ IsReportAction(lastCall.request.input.action)

(* The first request of the last call failed at the client.                *)
FirstRequestFailed == ~Serve(lastCall.request.script, 1).ok

HasFrame(st, runId, eventType) ==
  \E i \in 1..Len(st.replayframes) :
    st.replayframes[i].runId = runId /\ st.replayframes[i].eventType = eventType

HasReceipt(st, runId, outcome) ==
  \E i \in 1..Len(st.receipts) :
    st.receipts[i].runId = runId /\ st.receipts[i].outcome = outcome

(* C11: when the ReportClient request of an allowed report-preset action   *)
(* fails, the call returns normally, the run is persisted with status      *)
(* error and the client's error text in run.error, an                      *)
(* appfolio.report.failed frame is appended and a receipt with outcome     *)
(* error is appended.                                                      *)
C11_ClientFailureRecorded ==
  ReportCalled /\ FirstRequestFailed =>
    /\ lastCall.ok
    /\ lastCall.result.policy = "allow"
    /\ lastCall.result.run \in RunsOf(store)
    /\ lastCall.result.run.status = "error"
    /\ lastCall.result.run.error = Serve(lastCall.request.script, 1).error
    /\ HasFrame(store, lastCall.result.run.runId, "appfolio.report.failed")
    /\ HasReceipt(store, lastCall.result.run.runId, "error")

(* A report run whose request failed with an HTTP error status.            *)
C11_Witness ==
  /\ ReportCalled
  /\ FirstRequestFailed
  /\ lastCall.ok
  /\ lastCall.result.clientCalls = 1
  /\ lastCall.result.run.error = "appfolio_reports_http_500"

(* The pagination options in effect for the last call, as documented: the  *)
(* caller's values clamped to 1..20 pages and 1..200000 rows, 3 pages and  *)
(* 15000 rows when the caller gives none.                                  *)
EffectiveMaxPages ==
  LET pg == lastCall.request.input.payload.pagination
  IN IF ~pg.given THEN 3
     ELSE IF pg.maxPages < 1 THEN 1 ELSE IF pg.maxPages > 20 THEN 20 ELSE pg.maxPages

EffectiveMaxRows ==
  LET pg == lastCall.request.input.payload.pagination
  IN IF ~pg.given THEN 15000
     ELSE IF pg.maxRows < 1 THEN 1
     ELSE IF pg.maxRows > 200000 THEN 200000 ELSE pg.maxRows

EffectiveAutoPaginate ==
  LET pg == lastCall.request.input.payload.pagination
  IN IF ~pg.given THEN TRUE ELSE pg.autoPaginate

(* C12: the number of ReportClient fetches of a report-preset run (the     *)
(* initial request plus all next-page requests) never exceeds the          *)
(* effective maxPages, whatever next pages the server keeps naming.        *)
C12_FetchesWithinMaxPages ==
  ReportCalled /\ lastCall.ok => lastCall.result.clientCalls <= EffectiveMaxPages

(* A server that always names a next page, and a caller asking for 25      *)
(* pages: the run stops after 20 fetches.                                  *)
C12_Witness ==
  /\ ReportCalled
  /\ lastCall.ok
  /\ lastCall.request.input.payload.pagination.given
  /\ lastCall.request.input.payload.pagination.maxPages > 20
  /\ Len(lastCall.request.script) > 20
  /\ lastCall.result.clientCalls = 20
  /\ lastCall.result.report.truncated

(* C13: the aggregated row count in the result of a report-preset run      *)
(* never exceeds the effective maxRows, for every sequence of page sizes   *)
(* the server reports.                                                     *)
C13_CountWithinMaxRows ==
  ReportCalled /\ lastCall.ok /\ lastCall.result.report.ok
  => lastCall.result.report.count <= EffectiveMaxRows

(* The pages the server had for the last call: the number of the first     *)
(* page that names no next page (0 when there is none), and the sum of     *)
(* the row counts of the first n pages.                                    *)
EndOfPages ==
  LET sc == lastCall.request.script
      ends == {n \in 1..Len(sc) : sc[n].ok /\ ~sc[n].next}
  IN IF ends = {} THEN 0 ELSE CHOOSE n \in ends : \A m \in ends : n <= m

RECURSIVE SumOfCounts(_, _)
SumOfCounts(sc, n) == IF n = 0 THEN 0 ELSE SumOfCounts(sc, n - 1) + sc[n].count

(* Every page up to one without a next page was fetched.                   *)
FetchedToTheEnd ==
  /\ EndOfPages > 0
  /\ lastCall.result.clientCalls = EndOfPages
  /\ \A n \in 1..EndOfPages : lastCall.request.script[n].ok

PaginationWarnings ==
  {"pagination_max_pages_reached", "pagination_max_rows_reached",
   "pagination_next_page_failed"}

(* C14: with autoPaginate on, a report-preset run whose pagination stops   *)
(* because maxPages or maxRows was reached or a next page failed keeps     *)
(* run status ok, reports truncated and records a warning; a run that      *)
(* fetched every page up to one without a next page reports truncated      *)
(* false, pagesFetched equal to the number of pages and count equal to     *)
(* the sum of the page counts.                                             *)
C14_TruncationIsAWarning ==
  ReportCalled /\ lastCall.ok /\ EffectiveAutoPaginate /\ lastCall.result.report.ok
  => LET report == lastCall.result.report
     IN IF FetchedToTheEnd
        THEN /\ ~report.truncated
             /\ report.pagesFetched = EndOfPages
             /\ (\A n \in 1..EndOfPages : lastCall.request.script[n].count >= 0)
                => report.count = SumOfCounts(lastCall.request.script, EndOfPages)
             /\ lastCall.result.run.status = "ok"
        ELSE /\ report.truncated
             /\ \E i \in 1..Len(report.warnings) : report.warnings[i].code \in PaginationWarnings
             /\ lastCall.result.run.status = "ok"
             /\ lastCall.result.run.error = NONE

(* Three pages of one row each with maxPages = 3.                          *)
C14_Witness ==
  /\ ReportCalled
  /\ lastCall.ok
  /\ EffectiveAutoPaginate
  /\ EffectiveMaxPages = 3
  /\ EndOfPages = 3
  /\ FetchedToTheEnd
  /\ lastCall.result.report.count = 3
  /\ lastCall.result.report.pagesFetched = 3
  /\ ~lastCall.result.report.truncated

----------------------------------------------------------------------------
(* Properties of overlapping calls                                         *)

Finished(c) == inflight[c].phase = "done"

(* Two finished calls that both loaded before either saved.                *)
Overlapped(c, d) ==
  /\ c # d
  /\ Finished(c)
  /\ Finished(d)
  /\ inflight[c].loadedAt < inflight[d].savedAt
  /\ inflight[d].loadedAt < inflight[c].savedAt

(* The ids of everything a document holds.                                 *)
IdsOf(st) ==
  RunIds(st) \cup ReceiptIds(st) \cup DecisionIds(st) \cup FrameRunIds(st)
  \cup {st.schedules[i].id : i \in 1..Len(st.schedules)}

(* What the call of c added to the document it loaded.                     *)
AddedBy(c) == IdsOf(inflight[c].saved) \ IdsOf(inflight[c].snapshot)

(* C15: when two mutation calls overlap (both load the document before     *)
(* either saves), both return success and the persisted document is the    *)
(* one the later saver wrote: what the other call added (runs, receipts,   *)
(* replay frames, decisions, schedules) is absent from it.                 *)
C15_LastSaverWins ==
  \A c, d \in Callers :
    /\ Overlapped(c, d)
    /\ inflight[c].op \in MutationOps
    /\ inflight[d].op \in MutationOps
    /\ inflight[c].savedAt < inflight[d].savedAt
    => /\ inflight[c].ok
       /\ inflight[d].ok
       /\ store = inflight[d].saved
       /\ AddedBy(c) \cap IdsOf(store) = {}

(* An action execution and a schedule installation overlapped; the run of  *)
(* the execution, saved first, is gone.                                    *)
C15_Witness ==
  \E c, d \in Callers :
    /\ Overlapped(c, d)
    /\ inflight[c].op = "execute"
    /\ inflight[d].op = "schedule.add"
    /\ inflight[c].savedAt < inflight[d].savedAt
    /\ inflight[c].ok
    /\ RunIds(inflight[c].saved) # {}
    /\ RunIds(store) = {}

(* What the claims call the persisted state of the engine.                 *)
Persisted(st) ==
  [runs |-> st.runs, receipts |-> st.receipts, decisions |-> st.decisions,
   replayframes |-> st.replayframes, queues |-> st.queues,
   schedules |-> st.schedules, workspace |-> st.workspace]

(* The step is the save of a read by caller c.                             *)
ReadSaved(c) ==
  /\ inflight[c].phase = "loaded"
  /\ inflight[c].op \in ReadOps
  /\ inflight'[c].phase = "done"

(* C16: a read operation never changes the persisted runs, receipts,       *)
(* decisions, replay frames, queues, schedules or workspace, in any        *)
(* interleaving, and so never removes what a completed mutation wrote.     *)
C16_ReadsAreReadOnly ==
  [][\A c \in Callers : ReadSaved(c) => Persisted(store') = Persisted(store)]_vars

----------------------------------------------------------------------------
(* Ticks and schedules                                                     *)

(* The ids of the schedules a tick triggered.                              *)
TriggeredIds(result) == {result.scheduleIds[k] : k \in 1..Len(result.scheduleIds)}

(* C17: when a tick triggers a schedule that an earlier tick at t1 had     *)
(* triggered, at least intervalMs has passed since t1; so two ticks less   *)
(* than one interval apart trigger a schedule at most once.                *)
C17_OncePerInterval ==
  [][Called("tick") =>
       \A i \in 1..Len(store.schedules) :
         /\ store.schedules[i].id \in TriggeredIds(lastCall'.result)
         /\ store.schedules[i].lastRunAtMs > 0
         => now - store.schedules[i].lastRunAtMs >= store.schedules[i].intervalMs]_vars

(* A tick that left alone a schedule triggered less than one interval, and *)
(* more than no time, before it.                                           *)
C17_Witness ==
  /\ lastCall.op = "tick"
  /\ store.updatedAtMs = now
  /\ \E i \in 1..Len(store.schedules) :
       /\ store.schedules[i].enabled
       /\ store.schedules[i].lastRunAtMs > 0
       /\ store.schedules[i].lastRunAtMs < now
       /\ now - store.schedules[i].lastRunAtMs < store.schedules[i].intervalMs
       /\ store.schedules[i].id \notin TriggeredIds(lastCall.result)

(* schedule is due at ts: enabled, with a positive interval and a next run *)
(* that is not later than ts.                                              *)
DueAt(schedule, ts) ==
  /\ schedule.enabled
  /\ schedule.intervalMs > 0
  /\ schedule.nextRunAtMs <= ts

(* C18: a tick at now leaves every schedule that was due with nextRunAtMs  *)
(* = now + intervalMs, whether it ran or was skipped, and leaves the       *)
(* nextRunAtMs of every other schedule as it was.                          *)
C18_TickRearmsDueSchedules ==
  [][Called("tick") =>
       /\ Len(store'.schedules) = Len(store.schedules)
       /\ \A i \in 1..Len(store.schedules) :
            store'.schedules[i].nextRunAtMs =
              IF DueAt(store.schedules[i], now)
              THEN now + store.schedules[i].intervalMs
              ELSE store.schedules[i].nextRunAtMs]_vars

(* A tick that skipped a due schedule because its seat's queue was full,   *)
(* and re-armed it, next to a schedule that was not due.                   *)
C18_Witness ==
  /\ lastCall.op = "tick"
  /\ store.updatedAtMs = now
  /\ lastCall.result.triggered = <<>>
  /\ \E i \in 1..Len(store.schedules) :
       /\ store.schedules[i].enabled
       /\ store.schedules[i].nextRunAtMs = now + store.schedules[i].intervalMs
       /\ store.schedules[i].lastRunAtMs > 0
       /\ store.schedules[i].lastRunAtMs < now
  /\ \E i \in 1..Len(store.schedules) :
       /\ store.schedules[i].enabled
       /\ store.schedules[i].nextRunAtMs > now
       /\ store.schedules[i].nextRunAtMs < now + store.schedules[i].intervalMs

(* The stored runs that schedule triggered and that still await a decision *)
(* (the scheduler runs with source cron).                                  *)
AwaitingRuns(schedule) ==
  {r \in 1..Len(store.runs) :
     /\ store.runs[r].source = "cron"
     /\ store.runs[r].seatId = schedule.seatId
     /\ store.runs[r].action = schedule.action
     /\ store.runs[r].status = "escalated"
     /\ \E d \in 1..Len(store.decisions) :
          /\ store.decisions[d].runId = store.runs[r].runId
          /\ store.decisions[d].status = "pending"}

(* schedule is the only enabled schedule of its seat and action.           *)
OnlySchedule(i) ==
  \A j \in 1..Len(store.schedules) :
    /\ store.schedules[j].enabled
    /\ store.schedules[j].seatId = store.schedules[i].seatId
    /\ store.schedules[j].action = store.schedules[i].action
    => j = i

(* The tick result says that schedule triggered a run that was escalated,  *)
(* and so awaits a decision.                                               *)
TriggeredAwaiting(result, schedule) ==
  \E k \in 1..Len(result.scheduleIds) :
    /\ result.scheduleIds[k] = schedule.id
    /\ result.triggered[k].policy = "escalate"

(* C19: the runs that one schedule triggered and that still await a        *)
(* decision are never more than max(1, maxConcurrentRuns): a tick adds     *)
(* such a run to a schedule only while fewer than that many await.         *)
C19_ScheduleConcurrency ==
  [][Called("tick") =>
       \A i \in 1..Len(store.schedules) :
         /\ store.schedules[i].enabled
         /\ OnlySchedule(i)
         /\ TriggeredAwaiting(lastCall'.result, store.schedules[i])
         => Cardinality(AwaitingRuns(store.schedules[i]))
              < Max(1, store.schedules[i].maxConcurrentRuns)]_vars

(* C20: the pending count of every queue is never negative.                *)
C20_PendingNeverNegative ==
  \A seatId \in DOMAIN store.queues : store.queues[seatId].pending >= 0

(* The first call: an action that was allowed or blocked, whose decrement  *)
(* found the pending count of its seat's queue at zero.                    *)
C20_Witness ==
  /\ calls = 1
  /\ lastCall.op = "execute"
  /\ lastCall.ok
  /\ lastCall.result.policy \in {"allow", "block"}
  /\ store.queues[lastCall.result.run.seatId].pending = 0

----------------------------------------------------------------------------
(* Resolving decisions                                                     *)

(* The step is a successful resolve call for a decision that is stored     *)
(* with status pending.                                                    *)
ResolvedPending(d) ==
  /\ Called("resolve")
  /\ lastCall'.ok
  /\ d \in DecisionsOf(store)
  /\ d.decisionId = lastCall'.request.decisionId
  /\ d.status = "pending"

(* C21: resolving a pending decision takes one off the pending count of    *)
(* the queue of the decision's seat, or leaves it at zero, and leaves the  *)
(* pending count of every other queue as it was.                           *)
C21_ResolveDecrementsOwnQueue ==
  [][\A d \in DecisionsOf(store) :
       ResolvedPending(d) =>
         \A seatId \in DOMAIN store.queues :
           store'.queues[seatId].pending =
             IF seatId = d.seatId /\ store.queues[seatId].pending > 0
             THEN store.queues[seatId].pending - 1
             ELSE store.queues[seatId].pending]_vars

(* The second call resolved the decision that the first call raised: the   *)
(* pending count of its seat's queue is back at zero.                      *)
C21_Witness ==
  /\ calls = 2
  /\ lastCall.op = "resolve"
  /\ lastCall.ok
  /\ lastCall.result.status = "resolved"
  /\ lastCall.result.seatId \in DOMAIN store.queues
  /\ store.queues[lastCall.result.seatId].pending = 0
  /\ \E i \in 1..Len(store.receipts) :
       store.receipts[i].decisionId = lastCall.result.decisionId

(* The action results that call returned.                                  *)
ResultsOf(call) ==
  IF call.op = "execute" /\ call.ok THEN {call.result}
  ELSE IF call.op = "tick"
       THEN {call.result.triggered[k] : k \in 1..Len(call.result.triggered)}
       ELSE {}

(* res is the result of an action on a supervised or manual seat that no   *)
(* rule before the autonomy fallback decided.                              *)
ReachedFallback(res) ==
  /\ res.run.seatId \in SeatIds
  /\ WORKFORCE_ROSTER[res.run.seatId].autonomyMode \in {"supervised", "manual"}
  /\ res.reason \in {"autonomy_supervised", "autonomy_manual"}

(* res was escalated in st: run status and a pending card linked to it.    *)
EscalatedIn(res, st) ==
  /\ res.policy = "escalate"
  /\ res.run.status = "escalated"
  /\ \E d \in DecisionsOf(st) :
       /\ d.decisionId = res.decisionId
       /\ d.runId = res.run.runId
       /\ d.status = "pending"

(* d is the pending card of a stored run with status escalated.            *)
CardOfEscalatedRun(d) ==
  \E r \in 1..Len(store.runs) :
    store.runs[r].runId = d.runId /\ store.runs[r].status = "escalated"

(* In st the card of d is resolved with resolution and its linked run has  *)
(* the status that goes with it.                                           *)
ResolvedIn(st, d, resolution) ==
  /\ \E e \in DecisionsOf(st) :
       /\ e.decisionId = d.decisionId
       /\ e.status = "resolved"
       /\ e.resolution = resolution
  /\ \A r \in 1..Len(st.runs) :
       st.runs[r].runId = d.runId
       => st.runs[r].status = IF resolution = "allow" THEN "ok" ELSE "blocked"

(* C22: an action on a supervised or manual seat that reaches the autonomy *)
(* fallback is escalated, with run status escalated and a pending decision *)
(* card; resolving that card makes it resolved with the given resolution   *)
(* and makes the linked run ok on allow and blocked on deny.               *)
C22_FallbackEscalatesThenResolves ==
  [][/\ \A res \in ResultsOf(lastCall') :
          ReachedFallback(res) => EscalatedIn(res, store')
     /\ \A d \in DecisionsOf(store) :
          ResolvedPending(d) /\ CardOfEscalatedRun(d)
          => /\ lastCall'.result.status = "resolved"
             /\ lastCall'.result.resolution = lastCall'.request.resolution
             /\ ResolvedIn(store', d, lastCall'.request.resolution)]_vars

(* The card of an escalated action on the manual seat was denied, and its  *)
(* run is stored as blocked.                                               *)
C22_Witness ==
  /\ calls = 2
  /\ lastCall.op = "resolve"
  /\ lastCall.ok
  /\ lastCall.request.resolution = "deny"
  /\ lastCall.result.seatId = "ui-operator"
  /\ \E r \in 1..Len(store.runs) :
       /\ store.runs[r].runId = lastCall.result.runId
       /\ store.runs[r].status = "blocked"

(* The step is an execute call on seat queue-manager of the action         *)
(* appfolio.comms.broadcast, with the writeback gate requested or not.     *)
CommsOnQueueManager(gate) ==
  /\ Called("execute")
  /\ lastCall'.request.input.seatId = "queue-manager"
  /\ lastCall'.request.input.action = A_COMMS
  /\ lastCall'.request.input.requireWritebackReceipt = gate

(* C23: on seat queue-manager and a fresh store, appfolio.comms.broadcast  *)
(* without the writeback gate is blocked, with run status blocked and      *)
(* summary appfolio_action_requires_writeback_gate; with the gate and the  *)
(* id of a recorded writeback receipt in the payload it is allowed and the *)
(* run's status is ok.                                                     *)
C23_CommsWritebackGate ==
  [][/\ CommsOnQueueManager(FALSE) /\ calls = 0
        => /\ lastCall'.ok
           /\ lastCall'.result.policy = "block"
           /\ lastCall'.result.run.status = "blocked"
           /\ lastCall'.result.run.summary.code = "appfolio_action_requires_writeback_gate"
     /\ /\ CommsOnQueueManager(TRUE)
        /\ lastCall'.request.input.payload.writebackReceiptId \in WritebackReceiptIds(store)
        => /\ lastCall'.ok
           /\ lastCall'.result.policy = "allow"
           /\ lastCall'.result.run.status = "ok"]_vars

(* The scenario: blocked without the gate, a writeback receipt recorded,   *)
(* then allowed with the gate and that receipt's id.                       *)
C23_Witness ==
  /\ calls = 3
  /\ lastCall.op = "execute"
  /\ lastCall.request.input.seatId = "queue-manager"
  /\ lastCall.request.input.action = A_COMMS
  /\ lastCall.request.input.requireWritebackReceipt
  /\ lastCall.request.input.payload.writebackReceiptId \in WritebackReceiptIds(store)
  /\ lastCall.result.policy = "allow"
  /\ lastCall.result.run.status = "ok"
  /\ \E r \in 1..Len(store.runs) :
       /\ store.runs[r].action = A_COMMS
       /\ store.runs[r].status = "blocked"
       /\ store.runs[r].summary.code = "appfolio_action_requires_writeback_gate"

----------------------------------------------------------------------------
(* Errors                                                                  *)

(* call has a structural error against the stored document st: an unknown  *)
(* seat, an action without a character that is not white space, an unknown *)
(* decision or an unknown run.                                             *)
StructuralError(call, st) ==
  \/ /\ call.op = "execute"
     /\ \/ call.request.input.seatId \notin SeatIds
        \/ \A k \in 1..Len(call.request.input.action) : call.request.input.action[k] = " "
  \/ /\ call.op = "resolve"
     /\ call.request.decisionId \notin DecisionIds(st)
  \/ /\ call.op = "replay"
     /\ call.request.runId \notin RunIds(st)
  \/ /\ call.op = "schedule.add"
     /\ call.request.seatId \notin SeatIds

(* C24: a call with a structural error fails with an error and leaves the  *)
(* persisted store exactly as it was.                                      *)
C24_StructuralErrorsChangeNothing ==
  [][calls' = calls + 1 /\ StructuralError(lastCall', store)
     => /\ ~lastCall'.ok
        /\ lastCall'.result \in {"Unknown seat id", "Action is required",
                                 "Decision not found", "Run not found"}
        /\ store' = store]_vars

(* A call with a blank action failed on a store that holds a run and a     *)
(* schedule.                                                               *)
C24_Witness ==
  /\ lastCall.op = "execute"
  /\ ~lastCall.ok
  /\ lastCall.request.input.action = A_BLANK
  /\ lastCall.result = "Action is required"
  /\ Len(store.runs) > 0
  /\ \E i \in 1..Len(store.schedules) : store.schedules[i].enabled

(* The params of an RPC request fail the schema of its method, stated from *)
(* the schema: a required string that is missing, not a string or empty,   *)
(* a resolution that is not allow or deny, an interval that is not a       *)
(* number of at least 60000, or an additional property.                    *)
RequiredString(x, empty) == x.type = "string" /\ x.val # empty

FailsSchema(method, p) ==
  \/ p.extra
  \/ /\ method = "workforce.action.execute"
     /\ ~(RequiredString(p.seatId, "") /\ RequiredString(p.action, <<>>))
  \/ /\ method = "workforce.decision.resolve"
     /\ ~(/\ RequiredString(p.decisionId, NoId)
          /\ p.resolution.type = "string"
          /\ p.resolution.val \in {"allow", "deny"})
  \/ /\ method = "workforce.run.replay"
     /\ ~RequiredString(p.runId, NoId)
  \/ /\ method = "workforce.schedule.add"
     /\ ~(/\ RequiredString(p.seatId, "")
          /\ RequiredString(p.name, "")
          /\ p.intervalMs.type = "number"
          /\ p.intervalMs.val >= 60000
          /\ RequiredString(p.action, <<>>))

(* C25: an RPC request whose params fail schema validation is answered     *)
(* with the error code INVALID_REQUEST, the service operation is not       *)
(* called, the store stays as it is and nothing is broadcast.              *)
C25_InvalidParamsRejected ==
  [][calls' = calls + 1 /\ FailsSchema(lastCall'.op, lastCall'.request.params)
     => /\ ~lastCall'.request.invoked
        /\ inflight' = <<Respond(FALSE, "INVALID_REQUEST")>>
        /\ store' = store
        /\ nextId' = nextId]_vars

(* An execute request without an action was rejected after an earlier      *)
(* request had been served and broadcast.                                  *)
C25_Witness ==
  /\ calls = 2
  /\ lastCall.op = "workforce.action.execute"
  /\ lastCall.request.params.action.type = "undefined"
  /\ inflight = <<Respond(FALSE, "INVALID_REQUEST")>>
  /\ Len(store.runs) = 1

----------------------------------------------------------------------------
(* Replay                                                                  *)

ReceiptSeqOf(st, runId) == SelectSeq(st.receipts, LAMBDA r : r.runId = runId)

(* after is what is left of before when its oldest entries are dropped.    *)
KeptNewest(after, before) ==
  \E k \in 0..Len(before) : after = SubSeq(before, k + 1, Len(before))

(* The step is a successful replay of the stored run src.                  *)
ReplayedRun(src) ==
  /\ Called("replay")
  /\ lastCall'.ok
  /\ src \in RunsOf(store)
  /\ src.runId = lastCall'.request.runId

(* The new run of a replay of src: same seat and action, decided by an     *)
(* evaluation of the policy against the store before the call, and with a  *)
(* last frame run.replayed that refers to src.                             *)
ReplayedAfresh(src, res, before, after) ==
  /\ res.run.seatId = src.seatId
  /\ res.run.action = src.action
  /\ res.run.runId \notin RunIds(before)
  /\ res.policy = evaluatePolicy(src.seatId, src.action, FALSE, DefaultPayload, before).decision
  /\ res.run.policyDecision = res.policy
  /\ FramesOf(after, res.run.runId) # <<>>
  /\ FramesOf(after, res.run.runId)[Len(FramesOf(after, res.run.runId))].eventType = "run.replayed"
  /\ FramesOf(after, res.run.runId)[Len(FramesOf(after, res.run.runId))].payloadRef = src.runId

(* C26, as stated: a replay appends exactly one new run with the seat and  *)
(* the action of the source run, decided by a fresh policy evaluation; it  *)
(* leaves the source run, its receipts and its frames unchanged; and the   *)
(* new run's frames end with a run.replayed frame that refers to the       *)
(* source run.                                                             *)
C26_ReplayLeavesSource ==
  [][\A src \in RunsOf(store) :
       ReplayedRun(src) =>
         /\ store'.runs = Append(store.runs, lastCall'.result.run)
         /\ ReplayedAfresh(src, lastCall'.result, store, store')
         /\ ReceiptSeqOf(store', src.runId) = ReceiptSeqOf(store, src.runId)
         /\ FramesOf(store', src.runId) = FramesOf(store, src.runId)]_vars

(* C26, amended: a replay appends exactly one new run, as above, before    *)
(* the history caps are applied; the source run, its receipts and its      *)
(* frames are unchanged but for the oldest entries that the caps drop.     *)
C26_ReplayLeavesSourceButForCaps ==
  [][\A src \in RunsOf(store) :
       ReplayedRun(src) =>
         /\ KeptNewest(store'.runs, Append(store.runs, lastCall'.result.run))
         /\ Len(store'.runs) < MAX_STORED_RUNS
            => store'.runs = Append(store.runs, lastCall'.result.run)
         /\ store'.runs[Len(store'.runs)] = lastCall'.result.run
         /\ ReplayedAfresh(src, lastCall'.result, store, store')
         /\ KeptNewest(ReceiptSeqOf(store', src.runId), ReceiptSeqOf(store, src.runId))
         /\ Len(store'.receipts) < MAX_STORED_RECEIPTS
            => ReceiptSeqOf(store', src.runId) = ReceiptSeqOf(store, src.runId)
         /\ KeptNewest(FramesOf(store', src.runId), FramesOf(store, src.runId))
         /\ Len(store'.replayframes) < MAX_STORED_REPLAYFRAMES
            => FramesOf(store', src.runId) = FramesOf(store, src.runId)]_vars

(* A replay whose source run and its frames are all still stored, next to  *)
(* the new run.                                                            *)
C26_Witness ==
  /\ lastCall.op = "replay"
  /\ lastCall.ok
  /\ Len(store.runs) = 2
  /\ store.runs[1].runId = lastCall.request.runId
  /\ store.runs[2] = lastCall.result.run
  /\ Len(store.replayframes) < MAX_STORED_REPLAYFRAMES
  /\ FramesOf(store, lastCall.request.runId) # <<>>

----------------------------------------------------------------------------
(* History caps                                                            *)

RunIdSeq(st) == [i \in 1..Len(st.runs) |-> st.runs[i].runId]
ReceiptIdSeq(st) == [i \in 1..Len(st.receipts) |-> st.receipts[i].receiptId]
DecisionIdSeq(st) == [i \in 1..Len(st.decisions) |-> st.decisions[i].decisionId]

(* after has at most cap entries; it starts with the entries of before in  *)
(* their order, without the k oldest, and goes on with new entries; and    *)
(* entries were dropped only to get down to cap.                           *)
OldestDropped(before, after, cap) ==
  /\ Len(after) <= cap
  /\ \E k \in 0..Len(before) :
       /\ Len(after) >= Len(before) - k
       /\ SubSeq(after, 1, Len(before) - k) = SubSeq(before, k + 1, Len(before))
       /\ \A j \in (Len(before) - k + 1)..Len(after) :
            \A i \in 1..Len(before) : after[j] # before[i]
       /\ k > 0 => Len(after) = cap

(* The run, the receipt and the last frame that an action wrote are the    *)
(* last entries of their arrays.                                           *)
NewestKept(res, st) ==
  /\ st.runs # <<>>
  /\ st.runs[Len(st.runs)].runId = res.run.runId
  /\ \E i \in 1..Len(st.receipts) : st.receipts[i].receiptId = res.receiptId
  /\ st.replayframes # <<>>
  /\ st.replayframes[Len(st.replayframes)].runId = res.run.runId

(* C27: after every mutating operation the history arrays are within      *)
(* their caps, and what a cap removes are the oldest entries: the newest   *)
(* stay, in their order.                                                   *)
C27_HistoryCaps ==
  [][calls' = calls + 1 =>
       /\ lastCall'.op \in {"execute", "replay"} /\ lastCall'.ok
          => NewestKept(lastCall'.result, store')
       /\ OldestDropped(RunIdSeq(store), RunIdSeq(store'), MAX_STORED_RUNS)
       /\ OldestDropped(ReceiptIdSeq(store), ReceiptIdSeq(store'), MAX_STORED_RECEIPTS)
       /\ OldestDropped(store.replayframes, store'.replayframes, MAX_STORED_REPLAYFRAMES)
       /\ OldestDropped(DecisionIdSeq(store), DecisionIdSeq(store'), MAX_STORED_DECISIONS)]_vars

(* The runs are at their cap and a receipt is left of a run that the cap   *)
(* removed.                                                                *)
C27_Witness ==
  /\ Len(store.runs) = MAX_STORED_RUNS
  /\ \E i \in 1..Len(store.receipts) :
       /\ store.receipts[i].runId # NoId
       /\ store.receipts[i].runId \notin RunIds(store)
       /\ \A r \in RunIds(store) : store.receipts[i].runId < r

----------------------------------------------------------------------------
(* Status                                                                  *)

(* A run with the seat and action of run number i and with status ok was   *)
(* executed after it.                                                      *)
SucceededLater(st, i) ==
  \E j \in (i + 1)..Len(st.runs) :
    /\ st.runs[j].seatId = st.runs[i].seatId
    /\ st.runs[j].action = st.runs[i].action
    /\ st.runs[j].status = "ok"

BlockedRuns(st) == {i \in 1..Len(st.runs) : st.runs[i].status = "blocked"}

(* C28: the status reports a blocked run as unresolved, in summary.blocked *)
(* and for the clear-blocked-run step, if and only if no run of the same   *)
(* seat and action with status ok was executed after it.                   *)
C28_BlockedUntilSucceeded ==
  /\ \A i \in BlockedRuns(store) :
       i \in unresolvedBlockedRuns(store) <=> ~SucceededLater(store, i)
  /\ SummaryBlocked(store) =
       Cardinality({i \in BlockedRuns(store) : ~SucceededLater(store, i)})
  /\ ClearBlockedRunStep(store) # 0
       <=> \E i \in BlockedRuns(store) : ~SucceededLater(store, i)

----------------------------------------------------------------------------
(* Smart Bill review                                                       *)

(* The rows that the bill_detail step collected from a service that        *)
(* answers with one page.                                                  *)
CollectedRows(script) == IF script[1].ok THEN script[1].rows ELSE <<>>

(* vendor|amount|date|reference with the sentinels for blank parts.        *)
CompositeKey(row) ==
  <<IF row.vendor = "" THEN "unknown_vendor" ELSE row.vendor,
    "|", IF normalizeRowAmount(row.amount) = "" THEN "unknown_amount"
         ELSE normalizeRowAmount(row.amount),
    "|", IF row.date = "" THEN "unknown_date" ELSE row.date,
    "|", IF row.reference = "" THEN "unknown_reference" ELSE row.reference>>

(* The composite keys that occur on two or more of rows.                   *)
DuplicateKeys(rows) ==
  {CompositeKey(rows[i]) : i \in {k \in 1..Len(rows) :
     \E j \in 1..Len(rows) : j # k /\ CompositeKey(rows[j]) = CompositeKey(rows[k])}}

FindingsCards(st, runId) ==
  {d \in DecisionsOf(st) : d.runId = runId /\ d.title = "Smart Bill review findings"}

(* C29: for the bill_detail step of a workflow the reported duplicates are *)
(* the number of distinct composite keys that occur on two or more of the  *)
(* collected rows, and a Smart Bill review card is created if and only if  *)
(* there are duplicates or a row without vendor.                           *)
C29_SmartBillReview ==
  \A res \in ActionResults :
    IsWorkflowAction(res.run.action) /\ res.policy = "allow" =>
      /\ lastCall.request.script[1].ok
         => /\ res.smart.rows = Len(CollectedRows(lastCall.request.script))
            /\ res.smart.duplicates =
                 Cardinality(DuplicateKeys(CollectedRows(lastCall.request.script)))
      /\ FindingsCards(store, res.run.runId) # {}
         <=> \/ DuplicateKeys(CollectedRows(lastCall.request.script)) # {}
             \/ \E i \in 1..Len(CollectedRows(lastCall.request.script)) :
                  CollectedRows(lastCall.request.script)[i].vendor = ""
      /\ Cardinality(FindingsCards(store, res.run.runId)) <= 1

(* Two rows that differ in how the amount is written make one duplicate    *)
(* key, and the card was created.                                          *)
C29_Witness ==
  /\ lastCall.op = "execute"
  /\ lastCall.ok
  /\ lastCall.request.script = <<Page(TRUE, 2, FALSE, <<RowA, RowA2>>)>>
  /\ lastCall.result.smart.duplicates = 1
  /\ lastCall.result.smart.missingVendor = 0
  /\ FindingsCards(store, lastCall.result.run.runId) # {}

----------------------------------------------------------------------------
(* Replay frames of a run by policy outcome                                *)

EventTypes(st, runId) ==
  [i \in 1..Len(FramesOf(st, runId)) |-> FramesOf(st, runId)[i].eventType]

(* The frames executeActionInStore writes for a run of the given outcome.  *)
PolicyFrames(decision) ==
  IF decision = "allow" THEN <<"run.created", "run.running", "run.completed">>
  ELSE IF decision = "block" THEN <<"run.created", "run.blocked">>
  ELSE <<"run.created", "decision.created">>

(* The frames a report or workflow job appends to the run it works for;    *)
(* decision.created is the one of a Smart Bill findings card.              *)
JobFrameTypes ==
  {"appfolio.report.completed", "appfolio.report.failed",
   "appfolio.workflow.step.completed", "appfolio.workflow.step.failed",
   "decision.created"}

(* The pending decision a resolve call names, and its stored run.          *)
PendingDecisions(st, decisionId) ==
  {d \in DecisionsOf(st) : d.decisionId = decisionId /\ d.status = "pending"}

StoredRun(st, runId) == \E i \in 1..Len(st.runs) : st.runs[i].runId = runId

EscalatedRun(st, runId) ==
  \E i \in 1..Len(st.runs) : st.runs[i].runId = runId /\ st.runs[i].status = "escalated"

CountOf(s, x) == Cardinality({i \in 1..Len(s) : s[i] = x})

----------------------------------------------------------------------------
(* The agent tool: a preset report run with its writeback retry            *)
(*                                                                         *)
(* The tool awaits the service for every step.  The gate block that        *)
(* triggers the retry is the reply of a service that gates report actions, *)
(* so the replies of executeWorkforceAction and the receipt ids returned   *)
(* by recordAppfolioWritebackReceipt are scripted by the environment.      *)

MaxToolRuns == 1

ToolResult(policy, status, summary) ==
  [policy |-> policy, run |-> [status |-> status, summary |-> summary]]

GateBlock == ToolResult("block", "blocked", "appfolio_action_requires_writeback_gate")

(* every policy block taken for the gate block                             *)
isAnyBlock(result) == result.policy = "block"

isLegacyWritebackGateBlock(result) ==
  /\ result.policy = "block"
  /\ result.run.status = "blocked"
  /\ result.run.summary = "appfolio_action_requires_writeback_gate"

(* The input of one executeWorkforceAction call, as far as the gate goes.  *)
ToolCall(requireWritebackReceipt, writebackReceiptId) ==
  [requireWritebackReceipt |-> requireWritebackReceipt,
   writebackReceiptId |-> writebackReceiptId]

(* options: requiresWriteback, autoWriteback, writebackReceiptId.  env:    *)
(* created1 and created2 are the ids the two receipt requests return when  *)
(* made (NoId: none), first and second the results of the service.         *)
executePresetWithWriteback(options, env) ==
  LET autoCreate == options.requiresWriteback /\ options.writebackReceiptId = NoId
                      /\ options.autoWriteback
      id1 == IF autoCreate THEN env.created1 ELSE options.writebackReceiptId
      gate == isLegacyWritebackGateBlock(env.first)
      compatCreate == gate /\ id1 = NoId
      id2 == IF compatCreate THEN env.created2 ELSE id1
      retry == gate /\ id2 # NoId
  IN [calls |-> IF retry
                THEN <<ToolCall(options.requiresWriteback, id1), ToolCall(TRUE, id2)>>
                ELSE <<ToolCall(options.requiresWriteback, id1)>>,
      receiptRequests |-> (IF autoCreate THEN 1 ELSE 0) + (IF compatCreate THEN 1 ELSE 0),
      result |-> IF retry THEN env.second ELSE env.first,
      retriedWithWriteback |-> retry,
      writebackReceiptId |-> id2,
      writebackReceiptCreated |->
        IF compatCreate THEN id2 # NoId ELSE autoCreate /\ id1 # NoId]

(* Receipt ids: 5 is the caller's, 6 and 7 are freshly recorded ones.       *)
PresetOptions ==
  [requiresWriteback : BOOLEAN, autoWriteback : BOOLEAN,
   writebackReceiptId : {NoId, 5}]

FirstResults ==
  {GateBlock,
   ToolResult("block", "blocked", "appfolio_writeback_receipt_required"),
   ToolResult("escalate", "escalated", "appfolio_action_requires_writeback_gate"),
   ToolResult("allow", "ok", "appfolio_report")}

SecondResults == {GateBlock, ToolResult("allow", "ok", "appfolio_report")}

ServiceReplies ==
  [created1 : {NoId, 6}, created2 : {NoId, 7},
   first : FirstResults, second : SecondResults]

(* The tool action appfolio_report_run.                                    *)
PresetRun ==
  /\ calls < MaxToolRuns
  /\ \E options \in PresetOptions, env \in ServiceReplies :
       /\ lastCall' = Call("appfolio_report_run", [options |-> options, env |-> env], TRUE,
                           executePresetWithWriteback(options, env))
       /\ calls' = calls + 1
       /\ UNCHANGED <<store, now, nextId, inflight>>

NextTool == PresetRun

SpecTool == Init /\ [][NextTool]_vars

(* The calls of the last preset run.                                       *)
PresetCalls == lastCall.result.calls

(* No receipt id was given and every receipt request made returned none.   *)
NoReceiptIdAvailable ==
  /\ lastCall.request.options.writebackReceiptId = NoId
  /\ lastCall.result.writebackReceiptId = NoId

(* C31: a preset report run calls executeAction once or twice; it calls a  *)
(* second time exactly when the first result is the writeback-gate block   *)
(* and a receipt id is available, the second call carries                  *)
(* requireWritebackReceipt = true and that receipt id, and its result is   *)
(* the one returned; any other first result is returned without a retry.   *)
C31_RetryOnlyOnGateBlock ==
  lastCall.op = "appfolio_report_run" =>
    /\ Len(PresetCalls) \in {1, 2}
    /\ PresetCalls[1].requireWritebackReceipt = lastCall.request.options.requiresWriteback
    /\ Len(PresetCalls) = 2
       <=> /\ lastCall.request.env.first = GateBlock
           /\ ~NoReceiptIdAvailable
    /\ Len(PresetCalls) = 2
       => /\ PresetCalls[2].requireWritebackReceipt
          /\ PresetCalls[2].writebackReceiptId # NoId
          /\ PresetCalls[2].writebackReceiptId = lastCall.result.writebackReceiptId
          /\ lastCall.result.result = lastCall.request.env.second
          /\ lastCall.result.retriedWithWriteback
    /\ Len(PresetCalls) = 1
       => /\ lastCall.result.result = lastCall.request.env.first
          /\ ~lastCall.result.retriedWithWriteback

(* The gate blocked a run without a receipt id, the compat receipt was     *)
(* recorded and the retry with it was allowed.                             *)
C31_Witness ==
  /\ lastCall.op = "appfolio_report_run"
  /\ lastCall.request.options.writebackReceiptId = NoId
  /\ ~lastCall.request.options.requiresWriteback
  /\ lastCall.request.env.first = GateBlock
  /\ Len(PresetCalls) = 2
  /\ PresetCalls[2] = ToolCall(TRUE, 7)
  /\ lastCall.result.writebackReceiptCreated
  /\ lastCall.result.result.policy = "allow"

----------------------------------------------------------------------------
(* The agent tool: installing schedules                                    *)
(*                                                                         *)
(* An install lists the schedules (one await), then adds a schedule for    *)
(* every selected action the listing did not hold (one await each).  Other *)
(* requests run between the awaits.                                        *)

MaxInstalls == 3

actionForWorkforceAppfolioReportPreset(presetId) ==
  <<"appfolio", ".", "report", ".", "run", ":", presetId>>

actionForWorkforceAppfolioWorkflow(workflowId) ==
  <<"appfolio", ".", "workflow", ".", "run", ":", workflowId>>

(* seatId and defaultIntervalMs of WORKFORCE_APPFOLIO_REPORT_PRESET_DEFINITIONS *)
PresetSeat(presetId) == IF presetId = "work_order" THEN "scheduler" ELSE "queue-manager"

PresetIntervalMs(presetId) ==
  IF presetId \in {"rent_roll", "vendor_ledger_enhanced"} THEN 24 * 60 * 60 * 1000
  ELSE IF presetId = "work_order" THEN 30 * 60 * 1000
  ELSE 6 * 60 * 60 * 1000

WorkflowIntervalMs(workflowId) ==
  IF workflowId = "smart_bill_triage" THEN 6 * 60 * 60 * 1000 ELSE 24 * 60 * 60 * 1000

ScheduleToAdd(seatId, intervalMs, action) ==
  [seatId |-> seatId, intervalMs |-> intervalMs, action |-> action]

(* What an install request asks for, in the order it is worked through.    *)
InstallPlan(request) ==
  IF request.kind = "workflow"
  THEN <<ScheduleToAdd("queue-manager", WorkflowIntervalMs(request.workflowId),
                       actionForWorkforceAppfolioWorkflow(request.workflowId))>>
  ELSE [i \in 1..Len(request.presetIds) |->
          ScheduleToAdd(PresetSeat(request.presetIds[i]),
                        PresetIntervalMs(request.presetIds[i]),
                        actionForWorkforceAppfolioReportPreset(request.presetIds[i]))]

InstallRequests ==
  {[kind |-> "workflow", workflowId |-> "smart_bill_triage", presetIds |-> <<>>],
   [kind |-> "reports", workflowId |-> NONE, presetIds |-> <<"bill_detail">>],
   [kind |-> "reports", workflowId |-> NONE, presetIds |-> <<"rent_roll", "bill_detail">>]}

(* existingActions: the actions of the schedules listWorkforceSchedules    *)
(* returned.                                                               *)
ExistingActions(st) == {st.schedules[i].action : i \in 1..Len(st.schedules)}

(* the listing taken again before every add                                *)
KnownActionsFresh(known, st) == known \cup ExistingActions(st)

(* The set the install tests an action against: the listing it took at     *)
(* its start and what it added itself.                                     *)
KnownActions(known, st) == known

InitInstall == InitRace

(* listWorkforceSchedules of an install request.                           *)
InstallList ==
  /\ calls < MaxInstalls
  /\ \E c \in Callers, request \in InstallRequests :
       LET listed == ensureStore(store, now, nextId)
       IN /\ inflight[c].phase # "listed"
          /\ store' = listed.store
          /\ inflight' = [inflight EXCEPT ![c] =
               [phase |-> "listed", request |-> request,
                known |-> ExistingActions(listed.result),
                remaining |-> InstallPlan(request), installed |-> 0, skipped |-> 0]]
  /\ calls' = calls + 1
  /\ UNCHANGED <<now, nextId, lastCall>>

(* The next action of the plan: skipped when known, else added by          *)
(* addWorkforceSchedule.                                                   *)
InstallStep ==
  \E c \in Callers :
    /\ inflight[c].phase = "listed"
    /\ inflight[c].remaining # <<>>
    /\ LET job == inflight[c]
           next == Head(job.remaining)
           present == next.action \in KnownActions(job.known, store)
           r == addWorkforceSchedule(store, next.seatId, next.intervalMs, next.action,
                                     now, nextId)
       IN /\ store' = IF present THEN store ELSE r.store
          /\ nextId' = IF present THEN nextId ELSE r.nextId
          /\ lastCall' = IF present THEN lastCall
                         ELSE Call("schedule.add", next, r.ok, r.result)
          /\ inflight' = [inflight EXCEPT ![c] =
               [job EXCEPT !.remaining = Tail(@),
                           !.known = @ \cup {next.action},
                           !.installed = IF present THEN @ ELSE @ + 1,
                           !.skipped = IF present THEN @ + 1 ELSE @]]
    /\ UNCHANGED <<now, calls>>

(* The install returns its result.                                         *)
InstallReturn ==
  \E c \in Callers :
    /\ inflight[c].phase = "listed"
    /\ inflight[c].remaining = <<>>
    /\ inflight' = [inflight EXCEPT ![c] = [@ EXCEPT !.phase = "done"]]
    /\ UNCHANGED <<store, now, nextId, lastCall, calls>>

NextInstall == InstallList \/ InstallStep \/ InstallReturn

SpecInstall == InitInstall /\ [][NextInstall]_vars

(* C32: the store never holds two schedules with the same action that      *)
(* installs added, also when install requests overlap.                     *)
C32_NoDuplicateInstalls ==
  \A i, j \in 1..Len(store.schedules) :
    store.schedules[i].action = store.schedules[j].action => i = j

----------------------------------------------------------------------------
(* Change control                                                          *)

(* A high-risk action whose name starts with deploy. or security.          *)
HighRiskChangeAction(action) ==
  /\ deriveRiskLevel(action) = "high"
  /\ \/ StartsWith(ToLowerCase(Trim(action)), <<"deploy", ".">>)
     \/ StartsWith(ToLowerCase(Trim(action)), <<"security", ".">>)

(* C33: a high-risk action whose name starts with deploy. or security.     *)
(* never gets policy outcome allow, on any seat and for any payload, an    *)
(* explicit policyProfileId included.                                      *)
C33_ChangeControlNotBypassed ==
  (/\ lastCall.op = "policy"
   /\ HighRiskChangeAction(lastCall.request.action))
  => lastCall.result.decision # "allow"

----------------------------------------------------------------------------
(* Workflow runs with a failed step                                        *)

(* The stored runs with the given id.                                      *)
StoredRuns(st, runId) == {run \in RunsOf(st) : run.runId = runId}

(* C34: when a ReportClient request made for a step of an allowed workflow *)
(* action fails, the workflow run is recorded with status error; a         *)
(* workflow run does not end with status ok while one of its steps failed. *)
C34_FailedStepMakesRunError ==
  \A res \in ActionResults :
    (/\ IsWorkflowAction(res.run.action)
     /\ res.policy = "allow"
     /\ HasFrame(store, res.run.runId, "appfolio.workflow.step.failed"))
    => /\ res.run.status = "error"
       /\ \A run \in StoredRuns(store, res.run.runId) : run.status = "error"

----------------------------------------------------------------------------
(* Row collection against a server that answers every request afresh       *)
(*                                                                         *)
(* One step per ReportClient request of collectAppfolioReportRows; the     *)
(* server chooses each page when it is asked.  inflight is the collection: *)
(* [phase, maxRows, rows, next, truncated, calls].                         *)

MaxCollectRows == 2
MaxFetches == 6

ServerPages ==
  {Page(TRUE, Len(rows), next, rows) : rows \in {<<>>, <<RowA>>, <<RowA, RowB>>},
                                       next \in BOOLEAN}
    \cup {FailedPage}

InitCollect ==
  /\ store = createDefaultStore(StartMs)
  /\ now = StartMs
  /\ nextId = 1
  /\ lastCall = NoCall
  /\ calls = 0
  /\ inflight = [phase |-> "idle"]

(* while (!truncated && next && rows.length < maxRows)                     *)
CollectContinues(c) == ~c.truncated /\ c.next /\ Len(c.rows) < c.maxRows

(* the loop also left after a page without rows                            *)
CollectPageStopOnEmpty(c, page) ==
  IF ~page.ok THEN [c EXCEPT !.truncated = TRUE, !.calls = @ + 1]
  ELSE [c EXCEPT !.rows = @ \o page.rows,
                 !.next = page.next /\ page.rows # <<>>,
                 !.truncated = page.rowsTruncated,
                 !.calls = @ + 1]

(* The body of the loop for the page the request returned.                 *)
CollectPage(c, page) ==
  IF ~page.ok THEN [c EXCEPT !.truncated = TRUE, !.calls = @ + 1]
  ELSE [c EXCEPT !.rows = @ \o page.rows,
                 !.next = page.next,
                 !.truncated = page.rowsTruncated,
                 !.calls = @ + 1]

(* The first request of a collection.                                      *)
CollectFirst ==
  /\ inflight.phase = "idle"
  /\ \E maxRows \in 1..MaxCollectRows, served \in ServerPages :
       LET first == runAppfolioReport(served, TRUE, maxRows)
       IN inflight' =
            IF ~first.ok
            THEN [phase |-> "done", maxRows |-> maxRows, ok |-> FALSE, rows |-> <<>>,
                  next |-> FALSE, truncated |-> FALSE, calls |-> 1]
            ELSE [phase |-> "collecting", maxRows |-> maxRows, ok |-> TRUE,
                  rows |-> first.rows, next |-> first.next,
                  truncated |-> first.rowsTruncated, calls |-> 1]
  /\ UNCHANGED <<store, now, nextId, lastCall, calls>>

(* One more turn of the loop: runAppfolioReportNextPage.                   *)
CollectNextPage ==
  /\ inflight.phase = "collecting"
  /\ CollectContinues(inflight)
  /\ inflight.calls < MaxFetches
  /\ \E served \in ServerPages :
       inflight' = CollectPage(inflight,
                               runAppfolioReport(served, TRUE,
                                                 inflight.maxRows - Len(inflight.rows)))
  /\ UNCHANGED <<store, now, nextId, lastCall, calls>>

(* The loop is left and the collection returns.                            *)
CollectReturn ==
  /\ inflight.phase = "collecting"
  /\ ~CollectContinues(inflight)
  /\ inflight' = [inflight EXCEPT !.phase = "done",
                                  !.truncated = inflight.truncated \/ inflight.next]
  /\ UNCHANGED <<store, now, nextId, lastCall, calls>>

NextCollect == CollectFirst \/ CollectNextPage \/ CollectReturn

SpecCollect == InitCollect /\ [][NextCollect]_vars

(* C35: row collection makes a bounded number of ReportClient requests     *)
(* whatever the server answers: the requests of a collection stay below    *)
(* MaxFetches, which lies beyond one request for the first page and one    *)
(* for every row of the largest row limit.                                 *)
C35_CollectionBounded ==
  inflight.phase # "idle" => inflight.calls < MaxFetches

----------------------------------------------------------------------------
(* Gateway: the broadcasts that announce decision cards                    *)
(*                                                                         *)
(* The messages of a request are kept with the card each one carries       *)
(* (NoId: none).  Requests carry valid params here.                        *)

Announce(event, decisionId) ==
  [kind |-> "broadcast", event |-> event, decisionId |-> decisionId]

(* the findings card of a workflow job broadcast as well                   *)
ActionBroadcastsWithFindings(result) ==
  <<Announce("workforce.updated", NoId)>>
    \o (IF result.decisionId # NoId
        THEN <<Announce("workforce.decision.requested", result.decisionId)>> ELSE <<>>)
    \o (IF result.findingsDecisionId # NoId
        THEN <<Announce("workforce.decision.requested", result.findingsDecisionId)>>
        ELSE <<>>)

(* workforce.action.execute: workforce.updated, and                        *)
(* workforce.decision.requested with result.decision when there is one.    *)
ActionBroadcasts(result) ==
  <<Announce("workforce.updated", NoId)>>
    \o (IF result.decisionId # NoId
        THEN <<Announce("workforce.decision.requested", result.decisionId)>> ELSE <<>>)

(* workforce.tick: workforce.updated with the number of triggered runs.    *)
TickBroadcasts(result) == <<Announce("workforce.updated", NoId)>>

AnnounceRequests ==
  {Request("ops-lead", A_RETRO, FALSE, DefaultPayload, <<>>),
   Request("queue-manager", A_RETRO, FALSE, DefaultPayload, <<>>),
   Request("queue-manager", A_WORKFLOW_TRIAGE, FALSE, DefaultPayload, <<DupPage, OkPage>>),
   Request("queue-manager", A_WORKFLOW_TRIAGE, FALSE, DefaultPayload, <<CleanPage, OkPage>>)}

(* What a served request leaves: the saved document, the answer and the    *)
(* broadcasts.                                                             *)
Announced(method, request, r, broadcasts) ==
  /\ store' = IF r.ok THEN r.store ELSE store
  /\ nextId' = r.nextId
  /\ lastCall' = Call(method, request, r.ok, IF r.ok THEN r.result ELSE r.error)
  /\ inflight' = IF r.ok THEN broadcasts ELSE <<>>
  /\ calls' = calls + 1
  /\ UNCHANGED now

AnnounceExecute ==
  /\ CanStart
  /\ \E q \in AnnounceRequests :
       LET r == executeWorkforceAction(store, q.input, now, nextId, q.script)
       IN Announced("workforce.action.execute", q, r, ActionBroadcasts(r.result))

AnnounceTick ==
  /\ CanStart
  /\ \E sc \in TickScripts :
       LET r == tickWorkforceSchedules(store, "scheduler", now, nextId, sc)
       IN Announced("workforce.tick", [script |-> sc], r, TickBroadcasts(r.result))

NextAnnounce == AnnounceExecute \/ AnnounceTick \/ AddSchedule \/ Advance

SpecAnnounce == Init /\ [][NextAnnounce]_vars

(* The decision cards the step created with status pending.                *)
CreatedPending(before, after) ==
  {d \in DecisionsOf(after) : d.status = "pending" /\ d.decisionId \notin DecisionIds(before)}

(* C36: every decision card that a workforce.action.execute or             *)
(* workforce.tick request creates with status pending, a card of a         *)
(* workflow job included, is carried by a workforce.decision.requested     *)
(* broadcast of that request.                                              *)
C36_PendingCardsAnnounced ==
  [][calls' = calls + 1 /\ lastCall'.op \in {"workforce.action.execute", "workforce.tick"}
     => \A d \in CreatedPending(store, store') :
          \E k \in 1..Len(inflight') :
            inflight'[k] = Announce("workforce.decision.requested", d.decisionId)]_vars

----------------------------------------------------------------------------
(* Backpressure: escalations pile up on a queue until the policy blocks    *)

MaxPressureCalls == 6

PressureSeats == {"ops-lead", "ui-operator"}

PressureExecute ==
  /\ calls < MaxPressureCalls
  /\ \E s \in PressureSeats :
       Apply("execute", Request(s, A_RETRO, FALSE, DefaultPayload, <<>>),
             executeWorkforceAction(
               store, ActionInput(s, A_RETRO, "workforce", "operator", FALSE, DefaultPayload),
               now, nextId, <<>>))

PressureResolve ==
  /\ calls < MaxPressureCalls
  /\ \E d \in DecisionIds(store) :
       Apply("resolve", [decisionId |-> d, resolution |-> "allow"],
             resolveWorkforceDecision(store, d, "allow", "operator", now, nextId))

NextPressure == PressureExecute \/ PressureResolve

SpecPressure == Init /\ [][NextPressure]_vars

(* C37: every queue with the block backpressure policy holds at most       *)
(* concurrency x 4 pending entries.                                        *)
C37_PendingWithinBackpressure ==
  \A s \in SeatIds :
    store.queues[s].backpressurePolicy = "block"
    => store.queues[s].pending <= store.queues[s].concurrency * 4

(* The queue of ops-lead had reached its bound and the next action on the  *)
(* seat was blocked by the backpressure rule.                              *)
C37_Witness ==
  /\ lastCall.op = "execute"
  /\ lastCall.ok
  /\ lastCall.request.input.seatId = "ops-lead"
  /\ lastCall.result.policy = "block"
  /\ lastCall.result.reason = "queue_backpressure_block"

----------------------------------------------------------------------------
(* Queue pending against the pending decision cards of the seat            *)

PendingCardsOf(st, seatId) ==
  Cardinality({i \in 1..Len(st.decisions) :
                 st.decisions[i].seatId = seatId /\ st.decisions[i].status = "pending"})

PendingCovered(st) ==
  \A s \in SeatIds : st.queues[s].pending <= PendingCardsOf(st, s)

(* no decision card left the history in this step                          *)
NoDecisionTrimmed(before, after) == DecisionIds(before) \subseteq DecisionIds(after)

(* C38: while no decision card is trimmed from the history, the pending    *)
(* count of each seat's queue never exceeds the number of pending decision *)
(* cards of that seat: a step that keeps every stored card keeps the       *)
(* inequality.                                                             *)
C38_PendingCoveredByCards ==
  [][(PendingCovered(store) /\ NoDecisionTrimmed(store, store')) => PendingCovered(store')]_vars

(* One of two escalations of a seat was resolved: one entry is pending on  *)
(* the queue and one card of the seat is pending.                          *)
C38_Witness ==
  /\ lastCall.op = "resolve"
  /\ lastCall.ok
  /\ \E s \in SeatIds :
       /\ store.queues[s].pending = 1
       /\ PendingCardsOf(store, s) = 1
       /\ \E d \in DecisionsOf(store) : d.seatId = s /\ d.status = "resolved"

----------------------------------------------------------------------------
(* Runs against the decision cards linked to them                          *)

CardsOfRun(st, runId) == {i \in 1..Len(st.decisions) : st.decisions[i].runId = runId}

(* C39: every stored run with status escalated is linked to exactly one    *)
(* decision card, which is pending, and no stored run is linked to more    *)
(* than one decision card.                                                 *)
C39_EscalatedRunHasOnePendingCard ==
  \A run \in RunsOf(store) :
    /\ Cardinality(CardsOfRun(store, run.runId)) <= 1
    /\ run.status = "escalated"
       => /\ Cardinality(CardsOfRun(store, run.runId)) = 1
          /\ \A i \in CardsOfRun(store, run.runId) : store.decisions[i].status = "pending"

(* An escalated run with its pending card is stored next to a run whose    *)
(* card was resolved and which is no longer escalated.                     *)
C39_Witness ==
  /\ \E run \in RunsOf(store) :
       /\ run.status = "escalated"
       /\ \E i \in CardsOfRun(store, run.runId) : store.decisions[i].status = "pending"
  /\ \E run \in RunsOf(store) :
       /\ run.status # "escalated"
       /\ \E i \in CardsOfRun(store, run.runId) : store.decisions[i].status = "resolved"

----------------------------------------------------------------------------
(* Replay of a comms run                                                   *)

CommsRun(run) == StartsWith(run.action, <<"appfolio", ".", "comms", ".">>)

(* C40: a replay decides the seat and the action of the source run with no *)
(* payload and no writeback flag, and a replay of a stored run whose       *)
(* action starts with appfolio.comms. yields the policy block, whatever    *)
(* the store holds and whatever the outcome of the source run was.         *)
C40_CommsReplayBlocked ==
  [][\A src \in RunsOf(store) :
       ReplayedRun(src) =>
         /\ lastCall'.result.policy =
              evaluatePolicy(src.seatId, src.action, FALSE, DefaultPayload, store).decision
         /\ CommsRun(src) => lastCall'.result.policy = "block"]_vars

(* A comms run that was allowed with a writeback receipt has been replayed *)
(* and the replay was blocked at the comms gate.                           *)
C40_Witness ==
  /\ lastCall.op = "replay"
  /\ lastCall.ok
  /\ lastCall.result.policy = "block"
  /\ lastCall.result.reason = "appfolio_action_requires_writeback_gate"
  /\ \E src \in RunsOf(store) :
       /\ src.runId = lastCall.request.runId
       /\ CommsRun(src)
       /\ src.policyDecision = "allow"
       /\ src.status = "ok"

============================================================================
